---- MODULE Spec2Model ----
(***************************************************************************)
(* Verification model of the config-driven multi-agent dialog system:      *)
(* the tool batch scheduler (get_tool_execution_order), the supervisor     *)
(* routing state machine, the slot filler with its retry ceiling, the      *)
(* intent-switch negotiation, the tool executor and the response composer. *)
(*                                                                         *)
(* Two specifications:                                                     *)
(*   SchedSpec - get_tool_execution_order run loop iteration by loop       *)
(*               iteration on bounded tool configurations;                 *)
(*   Spec      - one LangGraph session: user turns (main.run_chat) and the *)
(*               node hops supervisor / tool_choosing / input_parameter /  *)
(*               tool_executing / generation.                              *)
(***************************************************************************)
EXTENDS Integers, Sequences, FiniteSets, TLC

VARIABLES
    \* ---- get_tool_execution_order (system_config.py:221-257) ----
    sched_cfg,            \* TOOLS as seen by the call: tool name -> [requires, returns]
    sched_tools,          \* intent_config["tools"] of the intent, as a set (line 234)
    remaining_tools,      \* local remaining_tools
    execution_order,      \* local execution_order (a sequence of batches)
    sched_pc,             \* "start" | "loop" | "done"
    \* ---- DialogState (schemas/dialog_state.py) ----
    messages,             \* state["messages"] from the latest user message on
    current_intent,
    paused_intents,
    extracted_parameters,
    selected_tools,
    tool_results,
    dialog_context,
    node,                 \* LangGraph node to run next; "__end__" = waiting for the user
    \* ---- the environment of the session ----
    scope,                \* what the user and the LLMs can answer; fixed by Init
    \* ---- one graph run (app.invoke, main.py:124) ----
    hops,                 \* super-steps of the run in progress, counted in TurnSpec
    turn_start            \* the parameters and retry counts the run started with

sched_vars == <<sched_cfg, sched_tools, remaining_tools, execution_order, sched_pc>>
dialog_vars == <<messages, current_intent, paused_intents, extracted_parameters,
                 selected_tools, tool_results, dialog_context, node, scope,
                 hops, turn_start>>
turn_vars == <<hops, turn_start>>
vars == <<sched_cfg, sched_tools, remaining_tools, execution_order, sched_pc,
          messages, current_intent, paused_intents, extracted_parameters,
          selected_tools, tool_results, dialog_context, node, scope,
          hops, turn_start>>

None == "None"

Range(s) == {s[i] : i \in DOMAIN s}

EmptyMap == [k \in {} |-> ""]

(***************************************************************************)
(* Bounds of the model                                                     *)
(***************************************************************************)
\* number of tools in the pool the scheduler configurations are drawn from
MaxTools == 3
\* largest "requires" list of a drawn tool configuration
MaxDeps == 1

(***************************************************************************)
(* Configuration (system_config.py)                                        *)
(***************************************************************************)
TOOLS ==
    [search_flights |-> [parameters |-> <<"origin", "destination", "date">>,
                         requires |-> {}, returns |-> "flight_options"],
     book_flight    |-> [parameters |-> <<"origin", "destination", "date">>,
                         requires |-> {"flight_options"}, returns |-> "booking_confirmation"],
     search_hotels  |-> [parameters |-> <<"destination", "days">>,
                         requires |-> {}, returns |-> "hotel_options"],
     book_hotel     |-> [parameters |-> <<"destination", "days">>,
                         requires |-> {"hotel_options"}, returns |-> "hotel_booking"],
     get_weather    |-> [parameters |-> <<"destination", "date">>,
                         requires |-> {}, returns |-> "weather_info"]]

INTENTS ==
    [book_flight |->
        [description |-> "Book airline tickets",
         tools |-> <<"search_flights", "book_flight">>,
         parameters |-> <<"origin", "destination", "date">>,
         question |-> [origin |-> "Which city or airport are you departing from?",
                       destination |-> "Where would you like to fly to?",
                       date |-> "What date would you like to travel?"]],
     book_hotel |->
        [description |-> "Book hotel accommodation",
         tools |-> <<"search_hotels", "book_hotel">>,
         parameters |-> <<"destination", "days">>,
         question |-> [destination |-> "Which city do you need a hotel in?",
                       days |-> "How many days will you be staying?"]],
     plan_vacation |->
        [description |-> "Plan a complete vacation with flights, hotel, and weather",
         tools |-> <<"search_flights", "search_hotels", "get_weather",
                     "book_flight", "book_hotel">>,
         parameters |-> <<"origin", "destination", "date", "days">>,
         question |-> [origin |-> "Where are you traveling from?",
                       destination |-> "Where would you like to go on vacation?",
                       date |-> "When would you like to start your vacation?",
                       days |-> "How many days will your vacation be?"]]]

get_available_intents == DOMAIN INTENTS

(***************************************************************************)
(* get_tool_execution_order (system_config.py:221-257)                     *)
(* A batch is a Python list built by iterating a set; its internal order   *)
(* is the set's iteration order and is not used by any caller except to    *)
(* run the tools one after the other, so a batch is modelled as a set.     *)
(***************************************************************************)
\* [t for batch in execution_order for t in batch]  (line 247)
ScheduledTools(order) == UNION Range(order)

\* lines 239-248: the tools of remaining_tools that have a configuration and
\* whose every entry of "requires" is found among the scheduled tool NAMES
ReadyTools(remaining, order, cfg) ==
    {t \in remaining :
        /\ t \in DOMAIN cfg
        /\ \A dep \in cfg[t].requires : dep \in ScheduledTools(order)}

\* a scheduler that breaks a stall by scheduling every remaining tool at once
BatchChoicesForcesAll(remaining, order, cfg) ==
    IF ReadyTools(remaining, order, cfg) # {}
    THEN {ReadyTools(remaining, order, cfg)}
    ELSE {remaining}

\* lines 250-252: the values ready_tools can have when line 254 appends it;
\* list(remaining_tools)[0] is whichever tool the set iterates first
BatchChoices(remaining, order, cfg) ==
    IF ReadyTools(remaining, order, cfg) # {}
    THEN {ReadyTools(remaining, order, cfg)}
    ELSE {{t} : t \in remaining}

\* a scheduler that removes only one of the scheduled tools from remaining_tools
RemainingAfterDropsOne(remaining, batch) ==
    remaining \ {CHOOSE t \in batch : TRUE}

\* line 255: remaining_tools -= set(ready_tools)
RemainingAfter(remaining, batch) == remaining \ batch

\* lines 237-257: every list the while loop can return
RECURSIVE ScheduleFrom(_, _, _)
ScheduleFrom(remaining, order, cfg) ==
    IF remaining = {}
    THEN {order}
    ELSE UNION {ScheduleFrom(RemainingAfter(remaining, b), Append(order, b), cfg) :
                    b \in BatchChoices(remaining, order, cfg)}

\* lines 221-257 on the shipped INTENTS and TOOLS
get_tool_execution_order(intent_name) ==
    IF intent_name \notin DOMAIN INTENTS
    THEN {<<>>}
    ELSE IF INTENTS[intent_name].tools = <<>>
         THEN {<<>>}
         ELSE ScheduleFrom(Range(INTENTS[intent_name].tools), <<>>, TOOLS)

(***************************************************************************)
(* SchedSpec: the scheduler on bounded configurations.  The pool is the    *)
(* first MaxTools tools of TOOLS with their shipped "returns" tags; the    *)
(* "requires" lists range over all sets of at most MaxDeps pool tags (the  *)
(* shipped lists among them); an intent lists any subset of the pool, or   *)
(* the whole pool and one tool name that has no configuration.             *)
(***************************************************************************)
ToolOrder == <<"search_flights", "book_flight", "search_hotels", "book_hotel", "get_weather">>

PoolTools == {ToolOrder[i] : i \in 1..MaxTools}

PoolTags == {TOOLS[t].returns : t \in PoolTools}

UnknownTool == "unknown_tool"

PoolConfigs ==
    {[t \in PoolTools |-> [requires |-> r[t], returns |-> TOOLS[t].returns]] :
        r \in [PoolTools -> {d \in SUBSET PoolTags : Cardinality(d) <= MaxDeps}]}

SchedInit ==
    /\ sched_cfg \in PoolConfigs
    /\ sched_tools \in (SUBSET PoolTools) \cup {PoolTools \cup {UnknownTool}}
    /\ remaining_tools = {}
    /\ execution_order = <<>>
    /\ sched_pc = "start"

\* lines 225-235
SchedStart ==
    /\ sched_pc = "start"
    /\ remaining_tools' = sched_tools
    /\ execution_order' = <<>>
    /\ sched_pc' = IF sched_tools = {} THEN "done" ELSE "loop"
    /\ UNCHANGED <<sched_cfg, sched_tools>>

\* one iteration of the while loop in which some tool is ready (lines 237-248, 254-255)
SchedReadyBatch ==
    /\ sched_pc = "loop"
    /\ remaining_tools # {}
    /\ ReadyTools(remaining_tools, execution_order, sched_cfg) # {}
    /\ \E b \in BatchChoices(remaining_tools, execution_order, sched_cfg) :
          /\ execution_order' = Append(execution_order, b)
          /\ remaining_tools' = RemainingAfter(remaining_tools, b)
    /\ UNCHANGED <<sched_cfg, sched_tools, sched_pc>>

\* one iteration in which no tool is ready (lines 250-255)
SchedForcedBatch ==
    /\ sched_pc = "loop"
    /\ remaining_tools # {}
    /\ ReadyTools(remaining_tools, execution_order, sched_cfg) = {}
    /\ \E b \in BatchChoices(remaining_tools, execution_order, sched_cfg) :
          /\ execution_order' = Append(execution_order, b)
          /\ remaining_tools' = RemainingAfter(remaining_tools, b)
    /\ UNCHANGED <<sched_cfg, sched_tools, sched_pc>>

\* line 237 with remaining_tools empty, line 257
SchedReturn ==
    /\ sched_pc = "loop"
    /\ remaining_tools = {}
    /\ sched_pc' = "done"
    /\ UNCHANGED <<sched_cfg, sched_tools, remaining_tools, execution_order>>


(***************************************************************************)
(* Text helpers: Python's str.lower, str.strip, str.replace and the        *)
(* substring test "w in s", computed on the strings themselves.            *)
(***************************************************************************)
Contains(s, w) ==
    \E i \in 1..(Len(s) - Len(w) + 1) : SubSeq(s, i, i + Len(w) - 1) = w

UpperChars == "ABCDEFGHIJKLMNOPQRSTUVWXYZ"

LowerChars == "abcdefghijklmnopqrstuvwxyz"

LowerChar(c) ==
    IF \E i \in 1..Len(UpperChars) : SubSeq(UpperChars, i, i) = c
    THEN LET i == CHOOSE j \in 1..Len(UpperChars) : SubSeq(UpperChars, j, j) = c
         IN  SubSeq(LowerChars, i, i)
    ELSE c

\* s.lower(), character by character; the string is halved so that the
\* evaluation stays shallow on long texts
RECURSIVE Lower(_)
Lower(s) ==
    IF Len(s) = 0 THEN ""
    ELSE IF Len(s) = 1 THEN LowerChar(s)
    ELSE Lower(SubSeq(s, 1, Len(s) \div 2)) \o Lower(SubSeq(s, Len(s) \div 2 + 1, Len(s)))

\* s.strip(): from the first to the last character that is not a blank
Strip(s) ==
    LET inked == {i \in 1..Len(s) : SubSeq(s, i, i) # " "}
    IN  IF inked = {} THEN ""
        ELSE SubSeq(s, CHOOSE i \in inked : \A j \in inked : i <= j,
                       CHOOSE i \in inked : \A j \in inked : j <= i)

\* s.replace('_', ' ')
RECURSIVE ReplaceUnderscore(_)
ReplaceUnderscore(s) ==
    IF Len(s) = 0 THEN ""
    ELSE IF Len(s) = 1 THEN (IF s = "_" THEN " " ELSE s)
    ELSE ReplaceUnderscore(SubSeq(s, 1, Len(s) \div 2))
            \o ReplaceUnderscore(SubSeq(s, Len(s) \div 2 + 1, Len(s)))

(***************************************************************************)
(* Intent detection (system_config.py:285-315, supervisor_agent.py:73-126) *)
(***************************************************************************)
IntentOrder == <<"book_flight", "book_hotel", "plan_vacation">>

INTENT_DETECTION_KEYWORDS ==
    [book_flight |-> {"book flight", "flight booking", "airline ticket", "plane ticket",
                      "fly to", "flight to", "book airplane", "air travel"},
     book_hotel |-> {"book hotel", "hotel booking", "hotel room", "accommodation",
                     "stay in", "hotel in", "reserve hotel"},
     plan_vacation |-> {"plan vacation", "vacation planning", "trip planning",
                        "holiday planning", "organize trip", "plan trip",
                        "vacation package", "plan my vacation"}]

KeywordScore(intent, user_message) ==
    Cardinality({k \in INTENT_DETECTION_KEYWORDS[intent] : Contains(Lower(user_message), k)})

\* max(intent_scores, key=intent_scores.get): the first intent, in the order of
\* INTENT_DETECTION_KEYWORDS, among those with the highest score
detect_intent_from_keywords(user_message) ==
    LET scored == {i \in 1..Len(IntentOrder) : KeywordScore(IntentOrder[i], user_message) > 0}
    IN  IF scored = {} THEN None
        ELSE LET best == CHOOSE i \in scored :
                            \A j \in scored :
                               \/ KeywordScore(IntentOrder[j], user_message)
                                     < KeywordScore(IntentOrder[i], user_message)
                               \/ /\ KeywordScore(IntentOrder[j], user_message)
                                        = KeywordScore(IntentOrder[i], user_message)
                                  /\ i <= j
             IN  IntentOrder[best]

\* self.llm.invoke raised (line 115)
LLMRaises == "<raised>"

\* response.content.strip().lower() of line 116, or LLMRaises: the name of a
\* configured intent, "general", or a text that is not in the list
LLMAnswers == get_available_intents \cup {"general", "a flight, i think", LLMRaises}

\* lines 118-126 without the test of line 119: any answer but "general" is an intent
intent_of_answer_unchecked(answer) ==
    IF answer \in {"general", LLMRaises} THEN None ELSE answer

\* lines 114-126: the intent returned for an answer of the LLM
intent_of_answer(answer) ==
    IF answer = LLMRaises THEN None
    ELSE IF answer \in get_available_intents \cup {"general"}
    THEN IF answer # "general" THEN answer ELSE None
    ELSE None

\* what lines 114-126 can return: the LLM answers with a configured intent
\* (among those the conversation is about), with "general", with a text that
\* is not in the list, or raises
LLMIntentAnswers(intents) ==
    {intent_of_answer(a) : a \in LLMAnswers \ (get_available_intents \ intents)}

\* what the user types (main.py:70), stripped, not empty and not one of the
\* exit commands of line 73
Utterances == {"Book flight", "book hotel", "Paris", "yes", "no", "Thanks", "no way"}

\* detect_intent_from_keywords of every utterance, computed once
KeywordTable == [u \in Utterances |-> detect_intent_from_keywords(u)]

\* a detection that asks the LLM first and falls back to the keywords
DetectUserIntentLLMFirst(msgs, intents) ==
    IF msgs = <<>> \/ msgs[Len(msgs)].role # "user"
    THEN {None}
    ELSE (LLMIntentAnswers(intents) \ {None}) \cup {KeywordTable[msgs[Len(msgs)].content]}

\* _detect_user_intent: the set of values it can return
DetectUserIntent(msgs, intents) ==
    IF msgs = <<>> \/ msgs[Len(msgs)].role # "user"
    THEN {None}
    ELSE IF KeywordTable[msgs[Len(msgs)].content] # None
         THEN {KeywordTable[msgs[Len(msgs)].content]}
         ELSE LLMIntentAnswers(intents)


(***************************************************************************)
(* The session state.  DialogState has no reducers, so a key of a          *)
(* Command's update replaces the stored value; in particular an update of  *)
(* "dialog_context" replaces the whole dictionary.  A key that is absent   *)
(* from dialog_context has the value its readers' .get() defaults give:    *)
(* EmptyContext (an absent "last_missing_params" is never told apart from  *)
(* an empty one by the code and is the empty sequence here).               *)
(***************************************************************************)
\* dialog_context["awaiting_confirmation"] when it is None or absent
NoConfirmation == [type |-> None, from |-> None, to |-> None]

EmptyContext ==
    [required_parameters |-> <<>>,
     tool_execution_order |-> <<>>,
     current_tool_batch |-> 0,
     completed_tools |-> {},
     retry_counts |-> EmptyMap,
     awaiting_confirmation |-> NoConfirmation,
     last_response_type |-> None,
     last_missing_params |-> <<>>,
     needs_clarification |-> FALSE,
     parameter_collection_failed |-> FALSE,
     failed_parameter |-> None,
     all_tools_completed |-> FALSE,
     batch_execution_success |-> None,
     intent_switched |-> FALSE,
     previous_intent |-> None,
     execution_blocked |-> FALSE,
     missing_parameters |-> <<>>,
     execution_error |-> None,
     error |-> None]

\* the state dictionary an agent is called with
State ==
    [messages |-> messages,
     current_intent |-> current_intent,
     paused_intents |-> paused_intents,
     extracted_parameters |-> extracted_parameters,
     selected_tools |-> selected_tools,
     tool_results |-> tool_results,
     dialog_context |-> dialog_context]

\* Command(goto=..., update=...)
Command(goto, update) == [goto |-> goto, update |-> update]

NoUpdate == [k \in {} |-> None]

\* LangGraph applying a Command: each key of the update overwrites the channel
Apply(c) ==
    /\ node' = c.goto
    /\ scope' = scope
    /\ messages' = IF "messages" \in DOMAIN c.update
                   THEN c.update.messages ELSE messages
    /\ current_intent' = IF "current_intent" \in DOMAIN c.update
                         THEN c.update.current_intent ELSE current_intent
    /\ paused_intents' = IF "paused_intents" \in DOMAIN c.update
                         THEN c.update.paused_intents ELSE paused_intents
    /\ extracted_parameters' = IF "extracted_parameters" \in DOMAIN c.update
                               THEN c.update.extracted_parameters ELSE extracted_parameters
    /\ selected_tools' = IF "selected_tools" \in DOMAIN c.update
                         THEN c.update.selected_tools ELSE selected_tools
    /\ tool_results' = IF "tool_results" \in DOMAIN c.update
                       THEN c.update.tool_results ELSE tool_results
    /\ dialog_context' = IF "dialog_context" \in DOMAIN c.update
                         THEN c.update.dialog_context ELSE dialog_context

Msg(role, content) == [role |-> role, content |-> content]

\* Python truthiness of params.get(p): present and not empty
Has(params, p) == p \in DOMAIN params /\ params[p] # ""

\* [p for p in required_parameters if not params.get(p)]
MissingParams(required, params) == SelectSeq(required, LAMBDA p : ~Has(params, p))

\* {**a, **b}
Merge(a, b) == [k \in DOMAIN a \cup DOMAIN b |-> IF k \in DOMAIN b THEN b[k] ELSE a[k]]

LastMessage(msgs) == msgs[Len(msgs)]

(***************************************************************************)
(* ToolChoosingAgent (tool_choosing_agent.py:20-65)                        *)
(***************************************************************************)
\* a tool chooser that keeps the execution order and the cursor it finds
ToolChoosingKeepsPlan(state) ==
    {Command("supervisor",
        [selected_tools |-> IF state.current_intent \in DOMAIN INTENTS
                            THEN INTENTS[state.current_intent].tools ELSE <<>>,
         dialog_context |->
            [EmptyContext EXCEPT
                !.required_parameters =
                    IF state.current_intent \in DOMAIN INTENTS
                    THEN INTENTS[state.current_intent].parameters ELSE <<>>,
                !.tool_execution_order = state.dialog_context.tool_execution_order,
                !.current_tool_batch = state.dialog_context.current_tool_batch]])}

ToolChoosingCommands(state) ==
    IF state.current_intent = None
    THEN {Command("supervisor",
            [selected_tools |-> <<>>,
             dialog_context |-> [EmptyContext EXCEPT !.error = "No intent to process"]])}
    ELSE IF state.current_intent \notin DOMAIN INTENTS
    THEN {Command("supervisor",
            [selected_tools |-> <<>>,
             dialog_context |-> [EmptyContext EXCEPT !.error = "Unknown intent"]])}
    ELSE {Command("supervisor",
            [selected_tools |-> INTENTS[state.current_intent].tools,
             dialog_context |->
                [EmptyContext EXCEPT
                    !.required_parameters = INTENTS[state.current_intent].parameters,
                    !.tool_execution_order = order,
                    !.current_tool_batch = 0,
                    !.completed_tools = {}]]) :
          order \in get_tool_execution_order(state.current_intent)}

(***************************************************************************)
(* InputParameterAgent (input_parameter_agent.py)                          *)
(***************************************************************************)
\* dialog_context.get("max_retries", 5); the key is set only to 5 (supervisor_agent.py:297)
max_retries == 5

\* an extraction without the filter of line 213: any parameter name is kept
ExtractionResultsUnfiltered(intent, required_params, values) ==
    UNION {[ks -> values] : ks \in SUBSET {"origin", "destination", "date", "days"}}

\* lines 217-219: the LLM raised, or its text is not the JSON of a dictionary
ExtractionOnFailure == EmptyMap

\* _extract_parameters (lines 141-219): the dictionaries it can return. The LLM's
\* JSON is arbitrary; line 213 keeps the keys that are in required_params; an
\* exception or an unknown intent gives {}
ExtractionResults(intent, required_params, values) ==
    IF intent \notin DOMAIN INTENTS
    THEN {EmptyMap}
    ELSE {ExtractionOnFailure} \cup
         UNION {[ks -> values] : ks \in SUBSET Range(required_params)}

\* get_parameter_question (system_config.py:272-279)
get_parameter_question(intent_name, param_name) ==
    IF intent_name \in DOMAIN INTENTS /\ param_name \in DOMAIN INTENTS[intent_name].question
    THEN INTENTS[intent_name].question[param_name]
    ELSE "Could you please provide the " \o param_name \o "?"

\* ', '.join(questions)
RECURSIVE JoinComma(_)
JoinComma(questions) ==
    IF Len(questions) = 0 THEN ""
    ELSE IF Len(questions) = 1 THEN questions[1]
    ELSE questions[1] \o ", " \o JoinComma(Tail(questions))

\* _generate_clarification_question (lines 221-244)
generate_clarification_question(intent_name, missing_params) ==
    LET questions == [i \in 1..Len(missing_params) |->
                        get_parameter_question(intent_name, missing_params[i])]
    IN  IF Len(missing_params) = 0
        THEN "I need some additional information to help you. Could you please provide more details?"
        ELSE IF Len(missing_params) = 1
        THEN "I need one more detail: " \o questions[1]
        ELSE IF Len(missing_params) = 2
        THEN "I need two more details: " \o questions[1] \o " and " \o questions[2]
        ELSE "I need a few more details: "
                \o JoinComma(SubSeq(questions, 1, Len(questions) - 1))
                \o ", and " \o questions[Len(questions)]

\* line 79
FailureMessage(param) ==
    "I've tried several times to get the " \o param
    \o " from you, but I'm still not clear on what you need. Could you please start over with a complete request? For example: 'Book a flight from New York to Paris on December 25th'"

\* retry_counts.get(param, 0)
RetryOf(retry_counts, param) ==
    IF param \in DOMAIN retry_counts THEN retry_counts[param] ELSE 0

\* a ceiling test that fires one call late
ReachedCeilingOneLate(retry_counts, param) ==
    RetryOf(retry_counts, param) > max_retries

\* a ceiling test that fires one call early
ReachedCeilingOneEarly(retry_counts, param) ==
    RetryOf(retry_counts, param) + 1 >= max_retries

\* line 76: param_retries >= max_retries
ReachedCeiling(retry_counts, param) ==
    RetryOf(retry_counts, param) >= max_retries

\* an increment that counts only the first missing parameter
IncrementRetriesFirstOnly(retry_counts, missing_params) ==
    [p \in DOMAIN retry_counts \cup {missing_params[1]} |->
        IF p = missing_params[1] THEN RetryOf(retry_counts, p) + 1 ELSE retry_counts[p]]

\* an increment that also counts the parameters that are no longer missing
IncrementRetriesOfAll(retry_counts, missing_params) ==
    [p \in DOMAIN retry_counts \cup Range(missing_params) |-> RetryOf(retry_counts, p) + 1]

\* lines 106-108
IncrementRetries(retry_counts, missing_params) ==
    [p \in DOMAIN retry_counts \cup Range(missing_params) |->
        IF p \in Range(missing_params) THEN RetryOf(retry_counts, p) + 1
        ELSE retry_counts[p]]

\* a slot filler that asks again although the call extracted something
NeedsClarificationAlways(extracted_params) == TRUE

\* lines 72, 96-97: clarification is asked unless the call extracted something
NeedsClarification(extracted_params) == DOMAIN extracted_params = {}

\* the latest user message (lines 30-34); None when there is none
LatestUserMessage(msgs) ==
    IF \E i \in DOMAIN msgs : msgs[i].role = "user"
    THEN msgs[CHOOSE i \in DOMAIN msgs :
                /\ msgs[i].role = "user"
                /\ \A j \in DOMAIN msgs : msgs[j].role = "user" => j <= i].content
    ELSE None

\* lines 56-139 for one extraction result
fill_slots(state, extracted_params) ==
    LET dc == state.dialog_context
        updated_params == Merge(state.extracted_parameters, extracted_params)
        missing_params == MissingParams(dc.required_parameters, updated_params)
        retry_counts == dc.retry_counts
        over == {i \in 1..Len(missing_params) : ReachedCeiling(retry_counts, missing_params[i])}
    IN  IF missing_params # <<>> /\ over # {}
        THEN LET param == missing_params[CHOOSE i \in over : \A j \in over : i <= j]
             IN  Command("generation",
                    [extracted_parameters |-> updated_params,
                     dialog_context |-> [dc EXCEPT !.parameter_collection_failed = TRUE,
                                                   !.failed_parameter = param,
                                                   !.last_response_type = "parameter_failure"],
                     messages |-> Append(state.messages,
                                         Msg("assistant", FailureMessage(param)))])
        ELSE IF missing_params # <<>> /\ NeedsClarification(extracted_params)
        THEN Command("generation",
                [extracted_parameters |-> updated_params,
                 dialog_context |-> [dc EXCEPT !.needs_clarification = TRUE,
                                               !.last_missing_params = missing_params,
                                               !.retry_counts =
                                                    IncrementRetries(retry_counts, missing_params),
                                               !.last_response_type = "clarification"],
                 messages |-> Append(state.messages,
                                Msg("assistant",
                                    generate_clarification_question(state.current_intent,
                                                                    missing_params)))])
        ELSE Command("supervisor",
                [extracted_parameters |-> updated_params,
                 dialog_context |-> [dc EXCEPT !.last_missing_params = missing_params,
                                               !.needs_clarification = FALSE,
                                               !.last_response_type = "parameter_progress"]])

\* InputParameterAgent.__call__ (lines 19-139): the Commands it can return
InputParameterCommands(state, values) ==
    IF LatestUserMessage(state.messages) = None \/ LatestUserMessage(state.messages) = ""
    THEN {Command("supervisor",
            [dialog_context |-> [EmptyContext EXCEPT !.error = "No user message to process"]])}
    ELSE {fill_slots(state, e) :
            e \in ExtractionResults(state.current_intent,
                                    state.dialog_context.required_parameters, values)}


(***************************************************************************)
(* ToolRegistry and ToolExecutingAgent                                     *)
(***************************************************************************)
\* the keyword parameters of the functions of travel_tools.py
ToolSignatures ==
    [search_flights |-> {"origin", "destination", "date"},
     book_flight |-> {"origin", "destination", "date"},
     book_hotel |-> {"city", "days"},
     search_hotels |-> {"destination", "days"},
     get_weather |-> {"destination", "date"}]

\* a validation that accepts a tool whatever parameters are present
validate_tool_parameters_accepts_all(tool_name, parameters) == tool_name \in DOMAIN TOOLS

\* ToolRegistry.validate_tool_parameters (tool_registry.py:55-68): the "valid" flag
validate_tool_parameters(tool_name, parameters) ==
    /\ tool_name \in DOMAIN TOOLS
    /\ \A param \in Range(TOOLS[tool_name].parameters) : Has(parameters, param)

\* _execute_tool (tool_executing_agent.py:124-154): the dictionary it returns, as
\* [error |-> whether it has an "error" key]. The function is called with one
\* keyword argument per configured parameter; a keyword the function does not
\* take raises TypeError, which line 153 turns into an error dictionary. The
\* functions of travel_tools.py return a dictionary without an "error" key.
execute_tool(tool_name, parameters) ==
    IF tool_name \notin DOMAIN ToolSignatures \/ tool_name \notin DOMAIN TOOLS
    THEN [error |-> TRUE]
    ELSE IF Range(TOOLS[tool_name].parameters) # ToolSignatures[tool_name]
    THEN [error |-> TRUE]
    ELSE [error |-> FALSE]

\* lines 81-105: the entry of batch_results for one tool of the batch
BatchResult(tool_name, parameters) ==
    IF ~validate_tool_parameters(tool_name, parameters)
    THEN [error |-> TRUE, success |-> FALSE]
    ELSE [error |-> execute_tool(tool_name, parameters).error, success |-> TRUE]

\* a pass that gives up the batch after its first tool
BatchResultsFirstOnly(tools, parameters) ==
    [t \in {u \in tools : u = CHOOSE v \in tools : TRUE} |-> BatchResult(t, parameters)]

\* lines 78-105: batch_results after the loop over the tools of the batch; the
\* loop has a try/except around each tool and goes on after a failure
BatchResults(tools, parameters) == [t \in tools |-> BatchResult(t, parameters)]

\* a cursor that advances after every pass
NextBatchAlways(current_batch, batch_success) == current_batch + 1

\* line 108
NextBatch(current_batch, batch_success) ==
    IF batch_success THEN current_batch + 1 ELSE current_batch

\* an executor without the test of lines 37-51 for the required parameters
ToolExecutingUnguarded(state) ==
    LET dc == state.dialog_context
        parameters == state.extracted_parameters
    IN  IF state.selected_tools = <<>>
        THEN {Command("supervisor",
                [tool_results |-> [k \in {} |-> None],
                 dialog_context |-> [dc EXCEPT !.execution_error = "No tools selected"]])}
        ELSE IF dc.current_tool_batch >= Len(dc.tool_execution_order)
        THEN {Command("supervisor",
                [dialog_context |-> [dc EXCEPT !.all_tools_completed = TRUE]])}
        ELSE LET current_batch_tools == dc.tool_execution_order[dc.current_tool_batch + 1]
                 batch_results == BatchResults(current_batch_tools, parameters)
                 batch_success == \A t \in current_batch_tools :
                                     validate_tool_parameters(t, parameters)
             IN  {Command("supervisor",
                    [tool_results |-> Merge(state.tool_results, batch_results),
                     dialog_context |->
                        [dc EXCEPT
                            !.current_tool_batch = NextBatch(dc.current_tool_batch, batch_success),
                            !.completed_tools =
                                dc.completed_tools \cup
                                    {t \in current_batch_tools :
                                        validate_tool_parameters(t, parameters)},
                            !.batch_execution_success =
                                IF batch_success THEN "True" ELSE "False"]])}

\* ToolExecutingAgent.__call__ (lines 13-122); completed_tools is a list the
\* code only appends to and never reads, modelled as the set of its elements
ToolExecutingCommands(state) ==
    LET dc == state.dialog_context
        parameters == state.extracted_parameters
    IN  IF state.selected_tools = <<>>
        THEN {Command("supervisor",
                [tool_results |-> [k \in {} |-> None],
                 dialog_context |-> [dc EXCEPT !.execution_error = "No tools selected"]])}
        ELSE IF MissingParams(dc.required_parameters, parameters) # <<>>
        THEN {Command("supervisor",
                [dialog_context |->
                    [dc EXCEPT !.execution_blocked = TRUE,
                               !.missing_parameters =
                                    MissingParams(dc.required_parameters, parameters),
                               !.last_response_type = "parameter_validation_failed"]])}
        ELSE IF dc.current_tool_batch >= Len(dc.tool_execution_order)
        THEN {Command("supervisor",
                [dialog_context |-> [dc EXCEPT !.all_tools_completed = TRUE]])}
        ELSE LET current_batch_tools == dc.tool_execution_order[dc.current_tool_batch + 1]
                 batch_results == BatchResults(current_batch_tools, parameters)
                 batch_success == \A t \in current_batch_tools :
                                     validate_tool_parameters(t, parameters)
             IN  {Command("supervisor",
                    [tool_results |-> Merge(state.tool_results, batch_results),
                     dialog_context |->
                        [dc EXCEPT
                            !.current_tool_batch = NextBatch(dc.current_tool_batch, batch_success),
                            !.completed_tools =
                                dc.completed_tools \cup
                                    {t \in current_batch_tools :
                                        validate_tool_parameters(t, parameters)},
                            !.batch_execution_success =
                                IF batch_success THEN "True" ELSE "False"]])}

(***************************************************************************)
(* GenerationAgent (generation_agent.py)                                   *)
(***************************************************************************)
\* a text standing for response.content of the generation LLM; it has a word of
\* GoodbyeWords, the fallback texts of lines 100-105 have none
LLMReplies == {"All set. Thank you for booking with us!"}

\* line 72-73
has_errors(results) ==
    \E t \in DOMAIN results : results[t].error \/ ~results[t].success

\* _generate_response_from_results (lines 63-105): the LLM's text, or the
\* fallback text when the LLM raises
GenerateResponses(intent, results) ==
    LLMReplies \cup
    {IF has_errors(results)
     THEN "I encountered some issues with your " \o ReplaceUnderscore(intent)
            \o " request. Please try again."
     ELSE "Great! I've completed your " \o ReplaceUnderscore(intent) \o " request."}

\* a composer without the pass-through test of lines 29-33
GenerationAlwaysResponds(state) ==
    {Command("supervisor",
        [messages |-> Append(state.messages, Msg("assistant", response))]) :
     response \in LLMReplies}

\* GenerationAgent.__call__ (lines 18-61): the Commands it can return
GenerationCommands(state) ==
    IF state.messages # <<>> /\ LastMessage(state.messages).role = "assistant"
    THEN {Command("__end__", NoUpdate)}
    ELSE IF DOMAIN state.tool_results # {}
    THEN {Command(IF state.dialog_context.all_tools_completed THEN "__end__" ELSE "supervisor",
            [messages |-> Append(state.messages, Msg("assistant", response))]) :
          response \in GenerateResponses(state.current_intent, state.tool_results)}
    ELSE {Command("supervisor",
            [messages |-> Append(state.messages, Msg("assistant", response))]) :
          response \in LLMReplies}

(***************************************************************************)
(* SupervisorAgent (supervisor_agent.py)                                   *)
(***************************************************************************)
\* _decide_next_action (lines 128-175)
decide_next_action(state) ==
    LET required_params == state.dialog_context.required_parameters
        missing_params == MissingParams(required_params, state.extracted_parameters)
    IN  IF state.current_intent # None /\ state.selected_tools = <<>>
        THEN "tool_choosing"
        ELSE IF state.selected_tools # <<>> /\ state.current_intent # None
                /\ missing_params # <<>>
        THEN "input_parameter"
        ELSE IF state.selected_tools # <<>> /\ DOMAIN state.tool_results = {}
                /\ missing_params = <<>>
        THEN "tool_executing"
        ELSE IF DOMAIN state.tool_results # {}
        THEN IF state.dialog_context.last_response_type = "generated"
             THEN "__end__"
             ELSE "generation"
        ELSE "__end__"

\* lines 201-207
ConfirmationMessage(cur, new) ==
    LET current_name == IF cur \in DOMAIN INTENTS THEN INTENTS[cur].description ELSE cur
        new_name == IF new \in DOMAIN INTENTS THEN INTENTS[new].description ELSE new
    IN  "I notice you want to start " \o new_name \o ", but we were working on "
        \o current_name \o ". Would you like me to pause the " \o current_name
        \o " and start " \o new_name \o "? (Reply with 'yes' to switch or 'no' to continue with "
        \o current_name \o ")"

\* a proposal stored with its two intents exchanged
request_confirmation_exchanged(state, cur, new) ==
    Command("__end__",
        [messages |-> Append(state.messages, Msg("assistant", ConfirmationMessage(cur, new))),
         dialog_context |->
            [state.dialog_context EXCEPT
                !.awaiting_confirmation = [type |-> "intent_switch", from |-> new, to |-> cur],
                !.last_response_type = "confirmation_request"]])

\* _request_intent_switch_confirmation (lines 195-223)
request_intent_switch_confirmation(state, cur, new) ==
    Command("__end__",
        [messages |-> Append(state.messages, Msg("assistant", ConfirmationMessage(cur, new))),
         dialog_context |->
            [state.dialog_context EXCEPT
                !.awaiting_confirmation = [type |-> "intent_switch", from |-> cur, to |-> new],
                !.last_response_type = "confirmation_request"]])

\* lines 277-279 without the removal of the entry already stored for the intent
UpdatedPausedKeepsOld(paused, entry) == Append(paused, entry)

\* lines 277-279
UpdatedPaused(paused, entry) ==
    Append(SelectSeq(paused, LAMBDA pi : pi.intent # entry.intent), entry)

\* a switch that carries the collected parameters over to the new intent
execute_intent_switch_keeps_params(state, from_intent, to_intent) ==
    Command("tool_choosing",
        [current_intent |-> to_intent,
         selected_tools |-> <<>>,
         tool_results |-> [k \in {} |-> None],
         paused_intents |-> UpdatedPaused(state.paused_intents,
                                [intent |-> from_intent,
                                 parameters |-> state.extracted_parameters,
                                 tools |-> state.selected_tools,
                                 paused_at |-> "parameter_collection"]),
         dialog_context |->
            [EmptyContext EXCEPT !.intent_switched = TRUE,
                                 !.previous_intent = from_intent,
                                 !.last_response_type = "intent_switch"]])

\* _execute_intent_switch (lines 262-301)
execute_intent_switch(state, from_intent, to_intent) ==
    Command("tool_choosing",
        [current_intent |-> to_intent,
         extracted_parameters |-> EmptyMap,
         selected_tools |-> <<>>,
         tool_results |-> [k \in {} |-> None],
         paused_intents |-> UpdatedPaused(state.paused_intents,
                                [intent |-> from_intent,
                                 parameters |-> state.extracted_parameters,
                                 tools |-> state.selected_tools,
                                 paused_at |-> "parameter_collection"]),
         dialog_context |->
            [EmptyContext EXCEPT !.intent_switched = TRUE,
                                 !.previous_intent = from_intent,
                                 !.last_response_type = "intent_switch"]])

\* line 237
IsAffirmative(user_response) ==
    \E word \in {"yes", "y", "switch", "pause"} : Contains(user_response, word)

\* line 240
IsNegative(user_response) ==
    \E word \in {"no", "n", "continue", "keep"} : Contains(user_response, word)

\* line 254
ReaskMessage == "Please respond with 'yes' to switch or 'no' to continue with the current task."

\* every text a message can hold in the model
ClarificationTexts ==
    {generate_clarification_question(i,
            SelectSeq(INTENTS[i].parameters, LAMBDA p : p \in ks)) :
        i \in DOMAIN INTENTS, ks \in SUBSET {"origin", "destination", "date", "days"}}

FailureTexts == {FailureMessage(p) : p \in {"origin", "destination", "date", "days"}}

ConfirmationTexts ==
    {ConfirmationMessage(cur, new) : cur \in DOMAIN INTENTS, new \in DOMAIN INTENTS}

ResponseTexts ==
    UNION {GenerateResponses(i, [t \in {"t"} |-> [error |-> e, success |-> TRUE]]) :
            i \in DOMAIN INTENTS, e \in BOOLEAN}

AllTexts ==
    Utterances \cup ClarificationTexts \cup FailureTexts \cup ConfirmationTexts
        \cup ResponseTexts \cup {ReaskMessage}

GoodbyeWords == {"bye", "goodbye", "exit", "quit", "thanks", "thank you"}

\* lines 188-190 for one message text
HasGoodbyeWord(content) ==
    \E word \in GoodbyeWords : Contains(Lower(content), word)

\* lines 188-190 of every text, computed once
GoodbyeTable == [t \in AllTexts |-> HasGoodbyeWord(t)]

\* _should_end_conversation; no code ever sets dialog_context["end_conversation"]
should_end_conversation(state) ==
    /\ state.messages # <<>>
    /\ GoodbyeTable[LastMessage(state.messages).content]

\* lines 232, 237 and 240 of every utterance, computed once
AffirmativeTable == [u \in Utterances |-> IsAffirmative(Strip(Lower(u)))]

NegativeTable == [u \in Utterances |-> IsNegative(Strip(Lower(u)))]

\* a decline that leaves the proposal pending
decline_keeps_proposal(state) ==
    Command("input_parameter",
        [dialog_context |-> [state.dialog_context EXCEPT !.last_response_type = "user_input"]])

\* lines 240-251
decline_intent_switch(state) ==
    Command("input_parameter",
        [dialog_context |-> [state.dialog_context EXCEPT !.awaiting_confirmation = NoConfirmation,
                                                         !.last_response_type = "user_input"]])

\* _handle_intent_switch_confirmation (lines 225-260)
handle_intent_switch_confirmation(state, awaiting_confirmation) ==
    IF state.messages = <<>> \/ LastMessage(state.messages).role # "user"
    THEN Command("__end__", NoUpdate)
    ELSE     IF AffirmativeTable[LastMessage(state.messages).content]
             THEN execute_intent_switch(state, awaiting_confirmation.from,
                                        awaiting_confirmation.to)
             ELSE IF NegativeTable[LastMessage(state.messages).content]
             THEN decline_intent_switch(state)
             ELSE Command("__end__",
                    [messages |-> Append(state.messages, Msg("assistant", ReaskMessage))])

\* a router that switches as soon as another intent is detected
route_detected_switches_at_once(state, detected_intent) ==
    IF state.current_intent # detected_intent /\ detected_intent # None
    THEN Command("tool_choosing", [current_intent |-> detected_intent])
    ELSE Command(decide_next_action(state), NoUpdate)

\* lines 50-71 alone: the adoption of lines 45-48 is left out
route_detected_never_adopts(state, detected_intent) ==
    IF detected_intent # state.current_intent /\ detected_intent # None
            /\ state.current_intent # None
    THEN request_intent_switch_confirmation(state, state.current_intent, detected_intent)
    ELSE IF decide_next_action(state) = "tool_choosing"
    THEN Command("tool_choosing",
            [current_intent |-> IF detected_intent # None THEN detected_intent
                                ELSE state.current_intent])
    ELSE Command(decide_next_action(state), NoUpdate)

\* __call__ lines 45-71, for one value of detected_intent
route_detected(state, detected_intent) ==
    IF state.current_intent = None /\ detected_intent # None
    THEN Command("tool_choosing", [current_intent |-> detected_intent])
    ELSE IF detected_intent # state.current_intent /\ detected_intent # None
            /\ state.current_intent # None
    THEN request_intent_switch_confirmation(state, state.current_intent, detected_intent)
    ELSE IF decide_next_action(state) = "tool_choosing"
    THEN Command("tool_choosing",
            [current_intent |-> IF detected_intent # None THEN detected_intent
                                ELSE state.current_intent])
    ELSE Command(decide_next_action(state), NoUpdate)

\* a router that answers a pending proposal before it tests for a farewell
SupervisorConfirmsFirst(state, intents) ==
    IF state.dialog_context.awaiting_confirmation # NoConfirmation
    THEN {handle_intent_switch_confirmation(state,
            state.dialog_context.awaiting_confirmation)}
    ELSE IF should_end_conversation(state)
    THEN {Command("__end__", NoUpdate)}
    ELSE {route_detected(state, d) : d \in DetectUserIntent(state.messages, intents)}

\* a router that classifies the utterance before it looks at a pending proposal
SupervisorClassifiesFirst(state, intents) ==
    IF should_end_conversation(state)
    THEN {Command("__end__", NoUpdate)}
    ELSE {IF d \notin {None, state.current_intent}
             \/ state.dialog_context.awaiting_confirmation = NoConfirmation
          THEN route_detected(state, d)
          ELSE handle_intent_switch_confirmation(state,
                    state.dialog_context.awaiting_confirmation) :
            d \in DetectUserIntent(state.messages, intents)}

\* SupervisorAgent.__call__ (lines 20-71): the Commands it can return
SupervisorCommands(state, intents) ==
    IF should_end_conversation(state)
    THEN {Command("__end__", NoUpdate)}
    ELSE IF state.dialog_context.awaiting_confirmation # NoConfirmation
    THEN {handle_intent_switch_confirmation(state, state.dialog_context.awaiting_confirmation)}
    ELSE {route_detected(state, d) : d \in DetectUserIntent(state.messages, intents)}


(***************************************************************************)
(* The session: main.run_chat and the graph of main.create_dialog_graph    *)
(***************************************************************************)
DialogInit ==
    /\ messages = <<>>
    /\ current_intent = None
    /\ paused_intents = <<>>
    /\ extracted_parameters = EmptyMap
    /\ selected_tools = <<>>
    /\ tool_results = [k \in {} |-> None]
    /\ dialog_context = EmptyContext
    /\ node = "__end__"
    /\ hops = 0
    /\ turn_start = [parameters |-> EmptyMap, retry_counts |-> EmptyMap]

\* main.py:82-124: the next utterance is appended, dialog_context gets
\* needs_clarification = False and last_response_type = "user_input", and the
\* graph is entered at the supervisor. The window of messages restarts at the
\* new user message: no agent reads anything older
UserTurn ==
    /\ node = "__end__"
    /\ \E u \in scope.utterances :
          messages' = <<Msg("user", u)>>
    /\ dialog_context' = [dialog_context EXCEPT !.needs_clarification = FALSE,
                                                !.last_response_type = "user_input"]
    /\ node' = "supervisor"
    /\ UNCHANGED <<current_intent, paused_intents, extracted_parameters,
                   selected_tools, tool_results, scope>>
    /\ UNCHANGED sched_vars

Supervisor ==
    /\ node = "supervisor"
    /\ \E c \in SupervisorCommands(State, scope.intents) : Apply(c)
    /\ UNCHANGED sched_vars

ToolChoosing ==
    /\ node = "tool_choosing"
    /\ \E c \in ToolChoosingCommands(State) : Apply(c)
    /\ UNCHANGED sched_vars

InputParameter ==
    /\ node = "input_parameter"
    /\ \E c \in InputParameterCommands(State, scope.values) : Apply(c)
    /\ UNCHANGED sched_vars

ToolExecuting ==
    /\ node = "tool_executing"
    /\ \E c \in ToolExecutingCommands(State) : Apply(c)
    /\ UNCHANGED sched_vars

Generation ==
    /\ node = "generation"
    /\ \E c \in GenerationCommands(State) : Apply(c)
    /\ UNCHANGED sched_vars

\* the scheduler variables while the session runs: the shipped pool, call returned
SchedIdle ==
    /\ sched_cfg = [t \in PoolTools |-> [requires |-> TOOLS[t].requires,
                                         returns |-> TOOLS[t].returns]]
    /\ sched_tools = {}
    /\ remaining_tools = {}
    /\ execution_order = <<>>
    /\ sched_pc = "done"

\* conversations about flights and hotels, with intent switches; extraction
\* gives a parameter a usable value or leaves it out
SwitchScope ==
    [intents |-> {"book_flight", "book_hotel"},
     values |-> {"NYC"},
     utterances |-> {"Book flight", "book hotel", "Paris", "yes", "no", "Thanks"}]

Init == DialogInit /\ SchedIdle /\ scope = SwitchScope

\* Spec and FillSpec do not count the super-steps of a run: their behaviours
\* are the hop sequences of the graph of any length. TurnSpec counts them.
Next ==
    \/ (UserTurn /\ UNCHANGED turn_vars)
    \/ (Supervisor /\ UNCHANGED turn_vars)
    \/ (ToolChoosing /\ UNCHANGED turn_vars)
    \/ (InputParameter /\ UNCHANGED turn_vars)
    \/ (ToolExecuting /\ UNCHANGED turn_vars)
    \/ (Generation /\ UNCHANGED turn_vars)

Spec == Init /\ [][Next]_vars

\* conversations about one intent; extraction can also give a parameter an
\* empty value or replace a value it already has
HotelScope ==
    [intents |-> {"book_hotel"},
     values |-> {"", "NYC"},
     utterances |-> {"book hotel", "Paris", "Thanks"}]

FlightScope ==
    [intents |-> {"book_flight"},
     values |-> {"", "NYC"},
     utterances |-> {"Book flight", "Paris", "Thanks"}]

\* two intents, and a user who names them or answers "no way"
DeclineScope ==
    [intents |-> {"book_flight", "book_hotel"},
     values |-> {"NYC"},
     utterances |-> {"Book flight", "book hotel", "no way"}]

DeclineInit == DialogInit /\ SchedIdle /\ scope = DeclineScope

DeclineSpec == DeclineInit /\ [][Next]_vars

FillInit == DialogInit /\ SchedIdle /\ scope \in {HotelScope, FlightScope}

FillSpec == FillInit /\ [][Next]_vars

(***************************************************************************)
(* ExecSpec: one pass of ToolExecutingAgent at every batch of a shipped    *)
(* intent.  The pass starts from what tool choosing wrote for the intent   *)
(* and from what the passes over the earlier batches left behind: their    *)
(* tools completed and their results stored.  A pass at a batch after the  *)
(* first has every required parameter, as the first pass had.              *)
(***************************************************************************)
\* tool_results and completed_tools after the passes over the first k batches
EarlierTools(order, k) == UNION {order[i] : i \in 1..k}

EarlierResults(order, k, parameters) ==
    [t \in EarlierTools(order, k) |->
        [error |-> execute_tool(t, parameters).error, success |-> TRUE]]

\* the parameters extraction can have stored for an intent
StoredParameters(intent) ==
    UNION {[ks -> {"NYC"}] : ks \in SUBSET Range(INTENTS[intent].parameters)}

\* the session when the supervisor hands over to the executor
ExecInputs ==
    /\ messages = <<Msg("user", "Paris")>>
    /\ paused_intents = <<>>
    /\ node = "tool_executing"
    /\ hops = 0
    /\ turn_start = [parameters |-> EmptyMap, retry_counts |-> EmptyMap]
    /\ \E intent \in DOMAIN INTENTS :
          /\ current_intent = intent
          /\ selected_tools = INTENTS[intent].tools
          /\ extracted_parameters \in StoredParameters(intent)
          /\ \E order \in get_tool_execution_order(intent) :
             \E k \in 0..Len(order) :
                /\ k > 0 => MissingParams(INTENTS[intent].parameters,
                                          extracted_parameters) = <<>>
                /\ tool_results = EarlierResults(order, k, extracted_parameters)
                /\ dialog_context =
                      [EmptyContext EXCEPT
                          !.required_parameters = INTENTS[intent].parameters,
                          !.tool_execution_order = order,
                          !.current_tool_batch = k,
                          !.completed_tools = EarlierTools(order, k),
                          !.last_response_type = "parameter_progress"]

ExecInit == SchedIdle /\ scope = SwitchScope /\ ExecInputs

ExecNext == (ToolExecuting /\ UNCHANGED turn_vars)

ExecSpec == ExecInit /\ [][ExecNext]_vars

(***************************************************************************)
(* TurnSpec: the session with the super-steps of each graph run counted.   *)
(* app.invoke runs with recursion_limit 50 (main.py:65): a run that has    *)
(* made that many super-steps without reaching END is ended by LangGraph   *)
(* with GraphRecursionError, which run_chat catches (main.py:141) before   *)
(* it reads the next utterance; the checkpoint keeps the state written by  *)
(* the last super-step.                                                    *)
(***************************************************************************)
recursion_limit == 50

\* a conversation about a hotel; extraction can also give a parameter an
\* empty value or replace a value it already has
TurnScope ==
    [intents |-> {"book_hotel"},
     values |-> {"", "NYC"},
     utterances |-> {"book hotel", "Paris"}]

TurnInit == DialogInit /\ SchedIdle /\ scope = TurnScope

\* app.invoke is entered (main.py:124)
RunStarts ==
    /\ hops' = 0
    /\ turn_start' = [parameters |-> extracted_parameters,
                      retry_counts |-> dialog_context.retry_counts]

\* one more super-step of the run
SuperStep ==
    /\ hops < recursion_limit
    /\ hops' = hops + 1
    /\ turn_start' = turn_start

\* the run is ended at the recursion limit (main.py:65, 141-143)
RecursionAbort ==
    /\ node # "__end__"
    /\ hops = recursion_limit
    /\ node' = "__end__"
    /\ UNCHANGED <<messages, current_intent, paused_intents, extracted_parameters,
                   selected_tools, tool_results, dialog_context, scope, hops, turn_start>>
    /\ UNCHANGED sched_vars

TurnNext ==
    \/ (UserTurn /\ RunStarts)
    \/ (Supervisor /\ SuperStep)
    \/ (ToolChoosing /\ SuperStep)
    \/ (InputParameter /\ SuperStep)
    \/ (ToolExecuting /\ SuperStep)
    \/ (Generation /\ SuperStep)
    \/ RecursionAbort

TurnSpec == TurnInit /\ [][TurnNext]_vars

(***************************************************************************)
(* RetrySpec: the session from its start and from every hand-over to the   *)
(* executor of ExecSpec, run on without end: a hop is taken whenever the   *)
(* graph has one to take, and the user always speaks again.                *)
(***************************************************************************)
RetryScope ==
    [intents |-> {"book_hotel"},
     values |-> {"NYC"},
     utterances |-> {"book hotel", "Paris"}]

RetryInit ==
    /\ SchedIdle
    /\ scope = RetryScope
    /\ \/ DialogInit
       \/ ExecInputs /\ current_intent \in scope.intents

RetrySpec == RetryInit /\ [][Next]_vars /\ WF_vars(Next)

SchedNext ==
    \/ (SchedStart /\ UNCHANGED dialog_vars)
    \/ (SchedReadyBatch /\ UNCHANGED dialog_vars)
    \/ (SchedForcedBatch /\ UNCHANGED dialog_vars)
    \/ (SchedReturn /\ UNCHANGED dialog_vars)

SchedSpecInit == SchedInit /\ DialogInit /\ scope = SwitchScope

SchedSpec == SchedSpecInit /\ [][SchedNext]_vars

\* the call runs on: a step of the function is taken whenever one is possible
SchedLiveSpec == SchedSpecInit /\ [][SchedNext]_vars /\ WF_vars(SchedNext)


(***************************************************************************)
(* Properties of the scheduler (SchedSpec)                                 *)
(***************************************************************************)
\* tool t of the intent depends on tool u of the intent: t requires a tag u returns
SchedDepends(t, u) ==
    /\ t \in sched_tools /\ u \in sched_tools
    /\ t \in DOMAIN sched_cfg /\ u \in DOMAIN sched_cfg
    /\ sched_cfg[u].returns \in sched_cfg[t].requires

\* what is left of S after repeatedly removing the tools that depend on no tool left
RECURSIVE Unpeeled(_)
Unpeeled(S) ==
    LET free == {t \in S : \A u \in S : ~SchedDepends(t, u)}
    IN  IF free = {} THEN S ELSE Unpeeled(S \ free)

SchedAcyclic == Unpeeled(sched_tools) = {}

BatchesOf(t) == {i \in DOMAIN execution_order : t \in execution_order[i]}

\* C1: when get_tool_execution_order returns for an intent whose dependency map is
\* acyclic, the batches partition the intent's tools: every tool is in exactly
\* one batch, no batch is empty, and no tool outside the intent is scheduled.
C1_BatchesPartitionTools ==
    (sched_pc = "done" /\ SchedAcyclic) =>
        /\ \A t \in sched_tools : Cardinality(BatchesOf(t)) = 1
        /\ \A i \in DOMAIN execution_order : execution_order[i] # {}
        /\ ScheduledTools(execution_order) \subseteq sched_tools

\* C1 witness: a returned plan of at least two batches for three tools with a
\* dependency among them
C1_Witness ==
    /\ sched_pc = "done"
    /\ SchedAcyclic
    /\ Cardinality(sched_tools) = 3
    /\ Len(execution_order) >= 2
    /\ \E t, u \in sched_tools : SchedDepends(t, u)

\* C2 (as claimed): when get_tool_execution_order returns for an intent whose
\* dependency map is acyclic, every tool that t depends on is in a strictly
\* earlier batch than t.
C2_DependenciesInEarlierBatch ==
    (sched_pc = "done" /\ SchedAcyclic) =>
        \A t, u \in sched_tools :
            SchedDepends(t, u) =>
                \A i \in BatchesOf(t) : \A j \in BatchesOf(u) : j < i


(***************************************************************************)
(* Properties of the dialog (Spec, FillSpec)                               *)
(***************************************************************************)
NoResults == [k \in {} |-> None]

\* the agent at node is called on a window of messages that has a user message
SlotFillerCalled ==
    /\ node = "input_parameter"
    /\ LatestUserMessage(messages) \notin {None, ""}

SummaryTexts == {"Great! I've completed your book flight request."} \cup LLMReplies

\* C3 (as claimed): when a book_flight turn whose plan is [search_flights] then
\* [book_flight] has all three parameters, the search has succeeded and the
\* success summary has been emitted, the turn does not end before book_flight
\* has been invoked as well and both batches are done.
C3_BothBatchesExecuted ==
    (/\ node = "__end__"
     /\ current_intent = "book_flight"
     /\ dialog_context.tool_execution_order = <<{"search_flights"}, {"book_flight"}>>
     /\ MissingParams(dialog_context.required_parameters, extracted_parameters) = <<>>
     /\ "search_flights" \in DOMAIN tool_results
     /\ ~has_errors(tool_results)
     /\ messages # <<>>
     /\ LastMessage(messages).role = "assistant"
     /\ LastMessage(messages).content \in SummaryTexts)
    => (/\ "book_flight" \in DOMAIN tool_results
        /\ dialog_context.current_tool_batch = 2)

\* the step the slot filler takes when extraction returns e
FillStep(e) == SlotFillerCalled /\ Apply(fill_slots(State, e))

C4_Step ==
    \A A \in Range(dialog_context.required_parameters) :
    \A B \in Range(dialog_context.required_parameters) \ {A} :
    \A x \in scope.values \ {""} :
        (/\ Len(dialog_context.required_parameters) = 2
         /\ extracted_parameters = EmptyMap
         /\ FillStep([k \in {A} |-> x]))
        => /\ extracted_parameters' = [k \in {A} |-> x]
           /\ MissingParams(dialog_context.required_parameters, extracted_parameters') = <<B>>
           /\ dialog_context'.retry_counts = dialog_context.retry_counts
           /\ \/ messages' = messages
              \/ messages' = Append(messages, Msg("assistant", FailureMessage(B)))
           /\ RetryOf(dialog_context.retry_counts, B) < max_retries
                => /\ messages' = messages
                   /\ dialog_context'.last_missing_params = <<B>>
                   /\ dialog_context'.last_response_type = "parameter_progress"
                   /\ node' = "supervisor"

\* C4: a slot filler call with two required parameters A and B, no parameter
\* known and an extraction result {A: x} stores A, leaves exactly B missing,
\* leaves the retry counts unchanged and appends no clarification question
\* (below the ceiling it appends nothing and records missing = [B]).
C4_PartialProgress == [][C4_Step]_vars

\* C4 witness: the hotel session after such a call: destination stored, days
\* recorded as the one missing parameter, no retry counted, no reply added
C4_Witness ==
    /\ node = "supervisor"
    /\ current_intent = "book_hotel"
    /\ extracted_parameters = [k \in {"destination"} |-> "NYC"]
    /\ dialog_context.last_response_type = "parameter_progress"
    /\ dialog_context.last_missing_params = <<"days">>
    /\ dialog_context.retry_counts = EmptyMap
    /\ Len(messages) = 1


\* the parameters a no-extraction call finds missing
StillMissing == MissingParams(dialog_context.required_parameters, extracted_parameters)

AtCeiling ==
    {p \in Range(StillMissing) : RetryOf(dialog_context.retry_counts, p) >= max_retries}

FailureOutcome ==
    /\ node' = "generation"
    /\ dialog_context'.parameter_collection_failed
    /\ dialog_context'.last_response_type = "parameter_failure"
    /\ dialog_context'.failed_parameter \in AtCeiling
    /\ dialog_context'.retry_counts = dialog_context.retry_counts
    /\ messages' = Append(messages,
                     Msg("assistant", FailureMessage(dialog_context'.failed_parameter)))

ClarificationOutcome ==
    /\ node' = "generation"
    /\ dialog_context'.last_response_type = "clarification"
    /\ dialog_context'.parameter_collection_failed = dialog_context.parameter_collection_failed
    /\ messages' = Append(messages,
                     Msg("assistant",
                         generate_clarification_question(current_intent, StillMissing)))
    /\ \A p \in Range(StillMissing) :
          /\ dialog_context'.retry_counts[p] = RetryOf(dialog_context.retry_counts, p) + 1
          /\ dialog_context'.retry_counts[p] <= max_retries

\* C5 (as claimed): the 5th consecutive no-progress call for a missing
\* parameter B, which is the call made when B has been asked for 4 times,
\* returns the failure outcome instead of a clarification question.
C5_FifthCallFails ==
    [][(/\ FillStep(EmptyMap)
        /\ \E B \in Range(StillMissing) :
              RetryOf(dialog_context.retry_counts, B) = max_retries - 1)
       => dialog_context'.parameter_collection_failed]_vars

C5_Step ==
    /\ (FillStep(EmptyMap) /\ StillMissing # <<>>)
         => IF AtCeiling = {} THEN ClarificationOutcome ELSE FailureOutcome
    /\ (node = "input_parameter" /\ dialog_context'.last_response_type = "clarification")
         => \A p \in Range(dialog_context'.last_missing_params) :
               RetryOf(dialog_context.retry_counts, p) < max_retries

\* C5 (amended): a no-progress slot filler call made while every missing
\* parameter has been asked for fewer than 5 times returns a clarification
\* question and counts one more attempt for each missing parameter; the first
\* no-progress call made when a missing parameter's count is 5 (the 6th call
\* when counts start at 0) returns the failure outcome naming such a parameter,
\* and no call appends a clarification when a parameter it asks for is at 5.
C5_RetryCeiling == [][C5_Step]_vars

\* C5 witness: the failure outcome just returned for a parameter asked for 5
\* times, nothing ever extracted
C5_Witness ==
    /\ node = "generation"
    /\ dialog_context.parameter_collection_failed
    /\ dialog_context.failed_parameter = "origin"
    /\ dialog_context.retry_counts = [p \in {"origin", "destination", "date"} |-> max_retries]
    /\ extracted_parameters = EmptyMap
    /\ LastMessage(messages).content = FailureMessage("origin")

\* C9: when the composer is invoked on a session whose last message is an
\* assistant message, it appends no message, changes no session field and ends
\* the turn, whatever the assistant message is and however often this happens.
C9_ComposerPassThrough ==
    [][(/\ node = "generation"
        /\ messages # <<>>
        /\ LastMessage(messages).role = "assistant")
       => (/\ node' = "__end__"
           /\ UNCHANGED <<messages, current_intent, paused_intents, extracted_parameters,
                          selected_tools, tool_results, dialog_context>>)]_vars

\* C9 witness: a turn ended by the composer with the slot filler's clarification
\* as its only reply
C9_Witness ==
    /\ node = "__end__"
    /\ dialog_context.last_response_type = "clarification"
    /\ Len(messages) = 2
    /\ LastMessage(messages).role = "assistant"
    /\ LastMessage(messages).content \in ClarificationTexts

HotelQuestion ==
    "I need two more details: Which city do you need a hotel in? and How many days will you be staying?"

HotelCounts(n) == [p \in {"destination", "days"} |-> n]

C10_Step ==
    (/\ current_intent = "book_hotel"
     /\ extracted_parameters = EmptyMap
     /\ FillStep(EmptyMap))
    => \E n \in 0..max_retries :
          /\ n = RetryOf(dialog_context.retry_counts, "destination")
          /\ n = RetryOf(dialog_context.retry_counts, "days")
          /\ IF n < max_retries
             THEN /\ messages' = Append(messages, Msg("assistant", HotelQuestion))
                  /\ dialog_context'.retry_counts = HotelCounts(n + 1)
                  /\ ~dialog_context'.parameter_collection_failed
                  /\ node' = "generation"
             ELSE /\ messages' = Append(messages,
                                   Msg("assistant", FailureMessage("destination")))
                  /\ dialog_context'.retry_counts = HotelCounts(max_retries)
                  /\ dialog_context'.parameter_collection_failed
                  /\ dialog_context'.failed_parameter = "destination"
                  /\ node' = "generation"

\* C10: for book_hotel with no parameter known, a call that extracts nothing
\* asks exactly the two-details question and raises both retry counts together
\* by one; the counts are 1 after the first question and 5 after four more
\* unrelated replies, and the reply after that (the 5th) finds both counts at 5
\* and yields the failure message instead of a question.
C10_HotelScenario == [][C10_Step]_vars

\* C10 witness: the hotel session after the failure message, both counts at 5
C10_Witness ==
    /\ current_intent = "book_hotel"
    /\ extracted_parameters = EmptyMap
    /\ dialog_context.retry_counts = HotelCounts(max_retries)
    /\ dialog_context.parameter_collection_failed
    /\ LastMessage(messages).content = FailureMessage("destination")
    /\ Len(messages) = 2


(***************************************************************************)
(* Properties of the intent-switch negotiation (Spec)                      *)
(***************************************************************************)
Awaiting == dialog_context.awaiting_confirmation

\* the supervisor is called, does not end the conversation, and the user has
\* just spoken
SupervisorHears(awaiting) ==
    /\ node = "supervisor"
    /\ ~should_end_conversation(State)
    /\ (Awaiting # NoConfirmation) = awaiting
    /\ messages # <<>>
    /\ LastMessage(messages).role = "user"

\* the last user message answers the pending proposal with this word
UserReplies(word) ==
    /\ SupervisorHears(TRUE)
    /\ LastMessage(messages).content = word

WorkUnchanged ==
    UNCHANGED <<current_intent, extracted_parameters, selected_tools,
                tool_results, paused_intents>>

C6_Step ==
    \A B \in DetectUserIntent(messages, scope.intents) \ {None, current_intent} :
        (/\ SupervisorHears(FALSE)
         /\ current_intent # None
         /\ Apply(route_detected(State, B)))
        => /\ WorkUnchanged
           /\ dialog_context'.awaiting_confirmation =
                 [type |-> "intent_switch", from |-> current_intent, to |-> B]
           /\ messages' = Append(messages,
                            Msg("assistant", ConfirmationMessage(current_intent, B)))
           /\ LastMessage(messages').content \in ConfirmationTexts
           /\ node' = "__end__"

\* C6: when the session has a current intent A and the latest user utterance
\* is classified as another intent B, the supervisor does not switch: the
\* current intent, the extracted parameters, the selected tools, the tool
\* results and the paused intents are unchanged, awaiting_confirmation records
\* {from: A, to: B}, exactly one confirmation question is appended and the turn
\* ends.
C6_SwitchProposal == [][C6_Step]_vars

\* C6 witness: a turn ended with a proposal to leave book_flight, whose
\* collected parameters are still in place
C6_Witness ==
    /\ node = "__end__"
    /\ current_intent = "book_flight"
    /\ Awaiting = [type |-> "intent_switch", from |-> "book_flight", to |-> "book_hotel"]
    /\ extracted_parameters # EmptyMap
    /\ Len(messages) = 2
    /\ LastMessage(messages).content = ConfirmationMessage("book_flight", "book_hotel")

EntriesFor(paused, intent) == SelectSeq(paused, LAMBDA pi : pi.intent = intent)

C7_Step ==
    /\ UserReplies("yes")
         => /\ EntriesFor(paused_intents', Awaiting.from) =
                  <<[intent |-> Awaiting.from,
                     parameters |-> extracted_parameters,
                     tools |-> selected_tools,
                     paused_at |-> "parameter_collection"]>>
            /\ \A other \in DOMAIN INTENTS \ {Awaiting.from} :
                  EntriesFor(paused_intents', other) = EntriesFor(paused_intents, other)
            /\ current_intent' = Awaiting.to
            /\ extracted_parameters' = EmptyMap
            /\ tool_results' = NoResults
            /\ dialog_context'.retry_counts = EmptyMap
            /\ dialog_context'.awaiting_confirmation = NoConfirmation
            /\ node' = "tool_choosing"
    /\ (node = "tool_choosing" /\ dialog_context.intent_switched)
         => /\ current_intent' = current_intent
            /\ selected_tools' = INTENTS[current_intent].tools
            /\ dialog_context'.tool_execution_order \in get_tool_execution_order(current_intent)
            /\ dialog_context'.current_tool_batch = 0
            /\ dialog_context'.retry_counts = EmptyMap
            /\ extracted_parameters' = EmptyMap
            /\ node' = "supervisor"

\* C7: when a proposal {from: A, to: B} is pending and the user replies "yes",
\* pausedIntents gets exactly one entry for A holding A's extracted parameters
\* and selected tools as they were before the reply (the entries of other
\* intents are kept), currentIntent becomes B, extractedParameters and
\* toolResults are empty, retryCounts is empty, the proposal is cleared, and
\* the next step runs the batch scheduler for B.
C7_ConfirmedSwitch == [][C7_Step]_vars

\* C7 witness: the switch to book_hotel just executed; book_flight is paused
\* with the parameters it had collected and an older paused entry is kept
C7_Witness ==
    /\ node = "tool_choosing"
    /\ dialog_context.intent_switched
    /\ current_intent = "book_hotel"
    /\ extracted_parameters = EmptyMap
    /\ LastMessage(messages).content = "yes"
    /\ Len(paused_intents) = 2
    /\ paused_intents[2].intent = "book_flight"
    /\ paused_intents[2].parameters # EmptyMap

C8_Step ==
    UserReplies("no")
      => /\ dialog_context'.awaiting_confirmation = NoConfirmation
         /\ WorkUnchanged
         /\ messages' = messages
         /\ dialog_context'.retry_counts = dialog_context.retry_counts
         /\ dialog_context'.required_parameters = dialog_context.required_parameters
         /\ dialog_context'.tool_execution_order = dialog_context.tool_execution_order
         /\ dialog_context'.current_tool_batch = dialog_context.current_tool_batch
         /\ node' = "input_parameter"

\* C8: when a proposal {from: A, to: B} is pending and the user replies "no",
\* the proposal is cleared, currentIntent, extractedParameters, selectedTools,
\* toolResults and pausedIntents keep their values, the plan and the retry
\* counts of A are kept, no message is appended, and control goes to the slot
\* filler.
C8_DeclinedSwitch == [][C8_Step]_vars

\* C8 witness: the slot filler is about to run on the reply "no" for
\* book_flight although no parameter is missing, which only a declined
\* proposal leads to
C8_Witness ==
    /\ node = "input_parameter"
    /\ current_intent = "book_flight"
    /\ Awaiting = NoConfirmation
    /\ LastMessage(messages).content = "no"
    /\ dialog_context.required_parameters # <<>>
    /\ StillMissing = <<>>


(***************************************************************************)
(* Invariants of the session                                               *)
(***************************************************************************)
\* C11: in every reachable state each retry count is at most max_retries (5),
\* whatever the user turns, the extraction results and the intent switches.
C11_RetryCountsBounded ==
    \A p \in DOMAIN dialog_context.retry_counts :
        dialog_context.retry_counts[p] <= max_retries

\* C11 witness: after an intent switch, a parameter of the new intent has been
\* asked for max_retries times
C11_Witness ==
    /\ paused_intents # <<>>
    /\ current_intent = "book_hotel"
    /\ \E p \in DOMAIN dialog_context.retry_counts :
          dialog_context.retry_counts[p] = max_retries


\* the parameter names of an intent's schema
SchemaOf(intent) ==
    IF intent \in DOMAIN INTENTS THEN Range(INTENTS[intent].parameters) ELSE {}

\* C12: in every reachable state the keys of extracted_parameters are
\* parameter names of the schema of current_intent, and extracted_parameters is
\* empty while there is no current intent, whatever the extraction returns and
\* across confirmed, declined and repeated intent switches.
C12_ParameterKeysInSchema ==
    /\ DOMAIN extracted_parameters \subseteq SchemaOf(current_intent)
    /\ current_intent = None => extracted_parameters = EmptyMap

\* C12 witness: book_hotel is current with both of its parameters stored while
\* the paused book_flight holds a parameter that book_hotel does not have
C12_Witness ==
    /\ current_intent = "book_hotel"
    /\ DOMAIN extracted_parameters = {"destination", "days"}
    /\ \E i \in DOMAIN paused_intents :
          /\ paused_intents[i].intent = "book_flight"
          /\ "origin" \in DOMAIN paused_intents[i].parameters


\* C13: in every reachable state no intent name occurs in two entries of
\* paused_intents, also after an intent has been paused, made current again
\* and paused a second time.
C13_PausedIntentsUnique ==
    \A i, j \in DOMAIN paused_intents :
        paused_intents[i].intent = paused_intents[j].intent => i = j

\* C13 witness: book_flight was paused, book_hotel was paused on the way back,
\* and book_flight has been paused again, so that its entry now comes last
C13_Witness ==
    /\ Len(paused_intents) = 2
    /\ paused_intents[1].intent = "book_hotel"
    /\ paused_intents[2].intent = "book_flight"
    /\ current_intent = "book_hotel"


C14_Step ==
    /\ \A i \in DOMAIN paused_intents :
          (UserReplies("yes") /\ paused_intents[i].intent = Awaiting.to)
            => /\ current_intent' = Awaiting.to
               /\ extracted_parameters' = paused_intents[i].parameters
               /\ EntriesFor(paused_intents', Awaiting.to) = <<>>
    /\ EntriesFor(paused_intents', current_intent') = <<>>

\* C14: when a proposal to switch to an intent A is confirmed while A is in
\* pausedIntents with saved parameters P, the resulting state has A as current
\* intent, extractedParameters = P and no entry for A in pausedIntents; and
\* after every step the current intent has no entry in pausedIntents. (The
\* selected tools are set by the tool-choosing step that follows, from the
\* configuration of A, and are left out of the formula.)
C14_ResumeRestores == [][C14_Step]_vars


(***************************************************************************)
(* Properties of one execution pass (ExecSpec)                             *)
(***************************************************************************)
\* the executor is called and runs the batch under the cursor
PassRuns ==
    /\ node = "tool_executing"
    /\ selected_tools # <<>>
    /\ MissingParams(dialog_context.required_parameters, extracted_parameters) = <<>>
    /\ dialog_context.current_tool_batch < Len(dialog_context.tool_execution_order)
    /\ \E c \in ToolExecutingCommands(State) : Apply(c)

\* the tools of the batch under the cursor that fail validation or whose
\* execution yields an error dictionary (raised, not found, or error payload)
FailedInPass ==
    {t \in dialog_context.tool_execution_order[dialog_context.current_tool_batch + 1] :
        \/ ~validate_tool_parameters(t, extracted_parameters)
        \/ execute_tool(t, extracted_parameters).error}

C15_Step ==
    PassRuns =>
        /\ dialog_context'.current_tool_batch \in
              {dialog_context.current_tool_batch, dialog_context.current_tool_batch + 1}
        /\ (dialog_context'.current_tool_batch = dialog_context.current_tool_batch + 1)
              <=> (FailedInPass = {})
        /\ \A t \in FailedInPass :
              /\ t \notin dialog_context'.completed_tools
              /\ t \in DOMAIN tool_results' => ~tool_results'[t].success

RunInProgress == node # "__end__"

\* C16: every user turn terminates by itself: whatever classification and
\* extraction return, the chain of hops of a run reaches END (a suspension
\* point or the end of the conversation) after finitely many hops, so no run
\* is still in progress when it has used up the recursion limit of the graph.
C16_TurnTerminates == RunInProgress => hops < recursion_limit


\* the parameters that had no value when the turn started and have one now:
\* extraction supplied them in this turn
SuppliedThisTurn ==
    {p \in DOMAIN extracted_parameters :
        Has(extracted_parameters, p) /\ ~Has(turn_start.parameters, p)}

\* the parameters whose retry count is higher than when the turn started
RetriedThisTurn ==
    {p \in DOMAIN dialog_context.retry_counts :
        dialog_context.retry_counts[p] > RetryOf(turn_start.retry_counts, p)}

\* C18: in a user turn in which extraction supplied a new value for at least
\* one missing parameter no retry count is incremented; retry counts increase
\* only in turns in which extraction supplied no new value.
C18_NoRetryInProgressTurn == SuppliedThisTurn # {} => RetriedThisTurn = {}


(***************************************************************************)
(* Messages of a turn (Spec)                                               *)
(***************************************************************************)
\* the assistant messages since the latest user message
AssistantMessages(msgs) == {i \in DOMAIN msgs : msgs[i].role = "assistant"}

\* a hop of the graph leaves messages alone or appends one assistant message
AppendsAtMostOne ==
    \/ messages' = messages
    \/ /\ Len(messages') = Len(messages) + 1
       /\ SubSeq(messages', 1, Len(messages)) = messages
       /\ messages'[Len(messages')].role = "assistant"

C17_Step ==
    /\ RunInProgress => AppendsAtMostOne
    /\ Cardinality(AssistantMessages(messages')) <= 1

\* C17: within one user turn at most one assistant message is appended to
\* messages, over every hop sequence of the turn (clarification or failure of
\* the slot filler, confirmation question, summary of the composer), and no
\* hop removes or changes a message that is already there.
C17_OneReplyPerTurn == [][C17_Step]_vars

\* C17 witness: a turn ran the tools and ended with the composer's summary as
\* its only assistant message
C17_Witness ==
    /\ node = "__end__"
    /\ tool_results # NoResults
    /\ Len(messages) = 2
    /\ messages[2].role = "assistant"
    /\ messages[2].content \in SummaryTexts


(***************************************************************************)
(* The batch cursor across intent changes (Spec)                           *)
(***************************************************************************)
C19_Step ==
    /\ dialog_context'.current_tool_batch <= Len(dialog_context'.tool_execution_order)
    /\ current_intent' # current_intent
          => /\ node' = "tool_choosing"
             /\ tool_results' = NoResults
    /\ (node = "tool_choosing" /\ current_intent # None)
          => /\ current_intent' = current_intent
             /\ dialog_context'.tool_execution_order \in
                   get_tool_execution_order(current_intent)
             /\ dialog_context'.current_tool_batch = 0
    /\ node' = "tool_executing"
          => /\ dialog_context'.tool_execution_order \in
                   get_tool_execution_order(current_intent')
             /\ tool_results' = NoResults => dialog_context'.current_tool_batch = 0

\* C19: after every step current_tool_batch is at most the length of
\* tool_execution_order; a step that changes current_intent (first adoption
\* or confirmed switch) leaves no tool result and hands over to tool choosing,
\* which computes the execution order of the new intent and sets the cursor to
\* 0; and whenever the executor is about to run, the order is one of the new
\* intent and the cursor is 0 as long as none of its tools has run.
C19_CursorWithinOrder == [][C19_Step]_vars

\* C19 witness: after a confirmed switch from book_flight the executor is about
\* to run the first batch of book_hotel
C19_Witness ==
    /\ node = "tool_executing"
    /\ current_intent = "book_hotel"
    /\ EntriesFor(paused_intents, "book_flight") # <<>>
    /\ tool_results = NoResults
    /\ dialog_context.tool_execution_order = <<{"search_hotels"}, {"book_hotel"}>>
    /\ dialog_context.current_tool_batch = 0


(***************************************************************************)
(* The forced path of the scheduler (SchedSpec)                            *)
(***************************************************************************)
\* an iteration of the while loop appends a batch although no tool was ready
ForcedStep ==
    /\ sched_pc = "loop"
    /\ remaining_tools # {}
    /\ ReadyTools(remaining_tools, execution_order, sched_cfg) = {}
    /\ execution_order' # execution_order

\* the remaining tools depend on each other in a cycle
RemainingCycle == Unpeeled(remaining_tools) # {}

\* a remaining tool requires a tag that no tool of the intent returns
UnproducedTag ==
    \E t \in remaining_tools \cap DOMAIN sched_cfg :
        \E dep \in sched_cfg[t].requires :
            \A u \in sched_tools \cap DOMAIN sched_cfg : sched_cfg[u].returns # dep

\* C20: for an intent whose tools all have a configuration, the scheduler
\* appends a forced batch only when the remaining tools contain a dependency
\* cycle or require a tag that no tool of the intent returns; so for an
\* acyclic intent whose every required tag is returned by another of its tools
\* (the shipped book_flight, book_hotel, plan_vacation) no batch comes from
\* forced scheduling.
C20_ForcedOnlyOnStall ==
    [][(ForcedStep /\ sched_tools \subseteq DOMAIN sched_cfg)
          => (RemainingCycle \/ UnproducedTag)]_vars


(***************************************************************************)
(* The batches of the shipped intents (ExecSpec)                           *)
(***************************************************************************)
\* the tools of the current intent not in the first k batches of its order
Unscheduled(k) ==
    Range(selected_tools) \ EarlierTools(dialog_context.tool_execution_order, k)

\* the unscheduled tools whose every required tag is returned by a tool of
\* the first k batches
TagReady(k) ==
    {t \in Unscheduled(k) :
        \A dep \in TOOLS[t].requires :
            \E u \in EarlierTools(dialog_context.tool_execution_order, k) :
                TOOLS[u].returns = dep}

\* C21: in the execution order of an intent every batch that follows a state
\* in which some unscheduled tool has all its required tags returned by
\* earlier batches is exactly the set of those tools; in particular the order
\* of plan_vacation is {search_flights, search_hotels, get_weather} followed
\* by {book_flight, book_hotel}.
C21_BatchIsAllTagReady ==
    /\ \A k \in 0..(Len(dialog_context.tool_execution_order) - 1) :
          TagReady(k) # {} => dialog_context.tool_execution_order[k + 1] = TagReady(k)
    /\ current_intent = "plan_vacation" =>
          dialog_context.tool_execution_order =
              <<{"search_flights", "search_hotels", "get_weather"},
                {"book_flight", "book_hotel"}>>


(***************************************************************************)
(* Termination of the scheduler (SchedLiveSpec)                            *)
(***************************************************************************)
\* the tools an iteration of the while loop takes out of remaining_tools
ScheduledNow == remaining_tools \ remaining_tools'

C22_Step ==
    (sched_pc = "loop" /\ remaining_tools # {})
        => /\ ScheduledNow # {}
           /\ remaining_tools' = remaining_tools \ ScheduledNow
           /\ execution_order' = Append(execution_order, ScheduledNow)
           /\ (\A t \in remaining_tools :
                 \/ t \notin DOMAIN sched_cfg
                 \/ \E dep \in sched_cfg[t].requires :
                       dep \notin ScheduledTools(execution_order))
                 => Cardinality(ScheduledNow) = 1

\* C22: get_tool_execution_order returns for every tool list and dependency
\* relation of the pool, cyclic ones, tags no tool returns and a tool name
\* without configuration included; every iteration of its loop schedules at
\* least one remaining tool, and a batch scheduled while no tool is ready
\* holds exactly one tool.
C22_SchedulerTerminates == <>(sched_pc = "done") /\ [][C22_Step]_vars

\* C22 witness: the call returned for a cyclic configuration and an intent
\* that also lists a tool without configuration, every tool scheduled
C22_Witness ==
    /\ sched_pc = "done"
    /\ ~SchedAcyclic
    /\ UnknownTool \in sched_tools
    /\ ScheduledTools(execution_order) = sched_tools
    /\ Len(execution_order) = Cardinality(sched_tools)


(***************************************************************************)
(* Retrying a failed batch (RetrySpec)                                     *)
(***************************************************************************)
\* a tool of batch k+1 of the order has a stored result that reports a failure
FailedAt(k) ==
    /\ k < Len(dialog_context.tool_execution_order)
    /\ \E t \in dialog_context.tool_execution_order[k + 1] \cap DOMAIN tool_results :
          tool_results[t].error \/ ~tool_results[t].success

\* the executor is called for batch k+1 with every required parameter present
Reattempts(k) ==
    /\ node = "tool_executing"
    /\ dialog_context.current_tool_batch = k
    /\ MissingParams(dialog_context.required_parameters, extracted_parameters) = <<>>

BatchUnderCursor ==
    dialog_context.tool_execution_order[dialog_context.current_tool_batch + 1]

\* the loop over a batch, for every batch of configured tools and every set of
\* stored parameters: each tool gets an entry, a failed validation gives
\* success = False and leaves the entries of the other tools as they would be
\* without it
LoopAttemptsAll ==
    \A tools \in SUBSET DOMAIN TOOLS :
    \A parameters \in StoredParameters("plan_vacation") :
        /\ DOMAIN BatchResults(tools, parameters) = tools
        /\ \A t \in tools :
              /\ BatchResults(tools, parameters)[t].success
                    <=> (\A param \in Range(TOOLS[t].parameters) : Has(parameters, param))
              /\ BatchResults(tools, parameters)[t] = BatchResults({t}, parameters)[t]

C24_Step ==
    /\ LoopAttemptsAll
    /\ PassRuns =>
        /\ node' = "supervisor"
        /\ DOMAIN tool_results' = DOMAIN tool_results \cup BatchUnderCursor
        /\ \A t \in BatchUnderCursor :
              tool_results'[t].error <=> t \in FailedInPass
        /\ \A t \in DOMAIN tool_results \ BatchUnderCursor :
              tool_results'[t] = tool_results[t]

Supplied(e) == {p \in Range(StillMissing) : Has(e, p)}

C25_Step ==
    \A e \in ExtractionResults(current_intent, dialog_context.required_parameters,
                               scope.values) :
        (FillStep(e) /\ Supplied(e) # {})
            => /\ dialog_context'.last_response_type # "parameter_failure"
               /\ messages' = messages

\* C25: a slot filler call whose extraction supplied a value for at least one
\* previously missing parameter never returns the failure outcome (no failure
\* message, no "parameter_failure"), also when the retry count of another
\* parameter that is still missing has reached max_retries.
C25_NoFailureOnProgress == [][C25_Step]_vars


C26_Step ==
    SlotFillerCalled =>
        \A p \in DOMAIN extracted_parameters :
            Has(extracted_parameters, p)
                => /\ p \in DOMAIN extracted_parameters'
                   /\ extracted_parameters'[p] = extracted_parameters[p]

\* C26: a slot filler call never changes the value of a parameter that is
\* already present in extracted_parameters: what extraction returns for a
\* parameter that is not missing is discarded, merging only adds values for
\* missing parameters.
C26_PresentValuesKept == [][C26_Step]_vars


C27_Step ==
    (/\ dialog_context.parameter_collection_failed
     /\ current_intent' = current_intent)
        => /\ ~Has(extracted_parameters', dialog_context.failed_parameter)
           /\ node' # "tool_executing"

\* C27: once the slot filler has returned the failure outcome for a parameter
\* of the current intent, no later step stores a value for that parameter or
\* hands over to the tool executor as long as the current intent is the same.
C27_FailureIsTerminal == [][C27_Step]_vars


\* the parameters still missing after the step
MissingAfter == MissingParams(dialog_context.required_parameters, extracted_parameters')

C28_Step ==
    /\ (node = "input_parameter" /\ dialog_context'.last_response_type = "clarification")
          => /\ MissingAfter # <<>>
             /\ DOMAIN dialog_context'.retry_counts =
                   DOMAIN dialog_context.retry_counts \cup Range(MissingAfter)
             /\ \A q \in DOMAIN dialog_context'.retry_counts :
                   dialog_context'.retry_counts[q] =
                       IF q \in Range(MissingAfter)
                       THEN RetryOf(dialog_context.retry_counts, q) + 1
                       ELSE dialog_context.retry_counts[q]
             /\ messages' = Append(messages,
                              Msg("assistant",
                                  generate_clarification_question(current_intent,
                                                                  MissingAfter)))
             /\ node' = "generation"
    /\ (node = "generation" /\ dialog_context.last_response_type = "clarification")
          => /\ node' = "__end__"
             /\ UNCHANGED <<messages, current_intent, paused_intents,
                            extracted_parameters, selected_tools, tool_results,
                            dialog_context>>

\* C28: when the slot filler asks for clarification it raises the retry
\* count of every parameter that is still missing by exactly 1, leaves the
\* counts of the other parameters as they are and appends exactly one
\* message, the clarification question; the next hop is the composer, which
\* changes nothing and ends the turn, so the supervisor does not run again in
\* the turn.
C28_ClarificationStep == [][C28_Step]_vars

\* C28 witness: a turn ended with a question for days alone, asked for the
\* second time, while the count of destination, collected after the first
\* question, is still 1
C28_Witness ==
    /\ node = "__end__"
    /\ current_intent = "book_hotel"
    /\ dialog_context.last_response_type = "clarification"
    /\ Has(extracted_parameters, "destination")
    /\ DOMAIN dialog_context.retry_counts = {"destination", "days"}
    /\ dialog_context.retry_counts["destination"] = 1
    /\ dialog_context.retry_counts["days"] = 2
    /\ Len(messages) = 2


(***************************************************************************)
(* A pending proposal (Spec)                                               *)
(***************************************************************************)
\* the reply to the pending proposal is neither a yes nor a no
AmbiguousReply ==
    /\ ~AffirmativeTable[LastMessage(messages).content]
    /\ ~NegativeTable[LastMessage(messages).content]

C29_Step ==
    (SupervisorHears(TRUE) /\ node' # node) =>
        /\ dialog_context'.awaiting_confirmation \in {Awaiting, NoConfirmation}
        /\ \/ /\ AffirmativeTable[LastMessage(messages).content]
              /\ node' = "tool_choosing"
              /\ current_intent' = Awaiting.to
           \/ /\ ~AffirmativeTable[LastMessage(messages).content]
              /\ NegativeTable[LastMessage(messages).content]
              /\ node' = "input_parameter"
              /\ WorkUnchanged
              /\ messages' = messages
           \/ /\ AmbiguousReply
              /\ node' = "__end__"
              /\ WorkUnchanged
              /\ dialog_context' = dialog_context
              /\ messages' = Append(messages, Msg("assistant", ReaskMessage))

\* C29: while a proposal is pending and the utterance is not a farewell, the
\* supervisor neither classifies the utterance nor routes by the state of the
\* session: a yes switches to the proposed intent, a no goes on with slot
\* filling, and any other reply is answered with the re-ask message while the
\* proposal, the current intent, the parameters, the selected tools, the
\* results and the paused intents stay as they are; the pending proposal is
\* never replaced by another one.
C29_PendingProposalOnly == [][C29_Step]_vars

\* C29 witness: the user answered a pending proposal with a request for the
\* proposed intent itself and was asked again
C29_Witness ==
    /\ node = "__end__"
    /\ Awaiting = [type |-> "intent_switch", from |-> "book_flight", to |-> "book_hotel"]
    /\ Len(messages) = 2
    /\ messages[1].content = "book hotel"
    /\ messages[2].content = ReaskMessage
    /\ extracted_parameters # EmptyMap


(***************************************************************************)
(* Routing by the state of the session (FillSpec)                          *)
(***************************************************************************)
\* the supervisor routes by the state of the session: the conversation does
\* not end, no proposal is pending and none is made, and an intent is current
RoutesByState ==
    /\ node = "supervisor"
    /\ ~should_end_conversation(State)
    /\ Awaiting = NoConfirmation
    /\ current_intent # None
    /\ dialog_context'.awaiting_confirmation = NoConfirmation
    /\ node' # node

\* the results have been composed into a response in this run: the last message
\* is a response of the generation agent for them
Composed ==
    /\ DOMAIN tool_results # {}
    /\ messages # <<>>
    /\ LastMessage(messages).role = "assistant"
    /\ LastMessage(messages).content \in GenerateResponses(current_intent, tool_results)

\* the stage the priority list names, the last two rules left open
StageBeforeResults ==
    IF selected_tools = <<>> THEN "tool_choosing"
    ELSE IF StillMissing # <<>> THEN "input_parameter"
    ELSE IF DOMAIN tool_results = {} THEN "tool_executing"
    ELSE "results"

C30_Step ==
    RoutesByState =>
        /\ node' = IF StageBeforeResults # "results" THEN StageBeforeResults
                   ELSE IF ~Composed THEN "generation"
                   ELSE "__end__"
        /\ UNCHANGED <<messages, current_intent, extracted_parameters, selected_tools,
                       tool_results, paused_intents, dialog_context>>

\* C30: when the supervisor routes by the state of the session it sends the
\* run to tool choosing when no tools are selected, else to the slot filler
\* when a required parameter is missing, else to the executor when there are
\* no results, else to the generation agent when the results are not yet
\* composed into a response, and ends the run otherwise; the step changes
\* nothing but the position of the run, and it never reaches the executor
\* with a required parameter missing.
C30_RoutingPriority == [][C30_Step]_vars

C30_StepUpToComposed ==
    RoutesByState =>
        /\ node' = IF StageBeforeResults # "results" THEN StageBeforeResults
                   ELSE "generation"
        /\ node' = "tool_executing" => StillMissing = <<>>
        /\ UNCHANGED <<messages, current_intent, extracted_parameters, selected_tools,
                       tool_results, paused_intents, dialog_context>>

\* every rule of the priority list but the last: with results present the
\* run goes to the generation agent, composed or not
C30_PriorityUpToComposed == [][C30_StepUpToComposed]_vars

\* the supervisor is about to route a run whose results are already composed
C30_ComposedAtRouter ==
    /\ node = "supervisor"
    /\ ~should_end_conversation(State)
    /\ Awaiting = NoConfirmation
    /\ Composed

(***************************************************************************)
(* A summary is composed once (RetrySpec)                                  *)
(***************************************************************************)
\* the results a session of the scope can hold
ResultsOf(intent) ==
    UNION {[ts -> [error : BOOLEAN, success : BOOLEAN]] :
            ts \in SUBSET Range(INTENTS[intent].tools) \ {{}}}

\* the turn has ended with a summary of these results as its last message
SummaryEmitted(intent, results) ==
    /\ node = "__end__"
    /\ current_intent = intent
    /\ tool_results = results
    /\ messages # <<>>
    /\ LastMessage(messages).role = "assistant"
    /\ LastMessage(messages).content \in GenerateResponses(intent, results)

\* the supervisor has sent the run to the generation agent, which will
\* compose a summary of these results
ComposesAgain(intent, results) ==
    /\ node = "generation"
    /\ current_intent = intent
    /\ tool_results = results
    /\ LastMessage(messages).role = "user"

\* C31: once a turn has ended with a summary of the results, no later turn
\* with the same intent and the same results is sent to the generation agent
\* to compose a summary of them again.
C31_SummaryComposedOnce ==
    \A intent \in RetryScope.intents : \A results \in ResultsOf(intent) :
        [](SummaryEmitted(intent, results) => [](~ComposesAgain(intent, results)))

(***************************************************************************)
(* The farewell test comes first (Spec)                                    *)
(***************************************************************************)
\* the supervisor is called and the latest utterance of the user has a
\* farewell or thanks word
FarewellHeard ==
    /\ node = "supervisor"
    /\ messages # <<>>
    /\ LastMessage(messages).role = "user"
    /\ GoodbyeTable[LastMessage(messages).content]

C33_Step ==
    (FarewellHeard /\ node' # node) =>
        /\ node' = "__end__"
        /\ UNCHANGED <<messages, current_intent, paused_intents, extracted_parameters,
                       selected_tools, tool_results, dialog_context>>

\* C33: when the latest utterance of the user has a farewell or thanks word
\* the supervisor ends the run and changes nothing, whatever the state of the
\* session; in particular a pending proposal stays pending and no switch is
\* executed.
C33_FarewellEndsTurn == [][C33_Step]_vars

\* C33 witness: the user thanked while a proposal was pending, the run has
\* ended and the proposal is still pending
C33_Witness ==
    /\ node = "__end__"
    /\ Awaiting # NoConfirmation
    /\ current_intent = Awaiting.from
    /\ messages = <<Msg("user", "Thanks")>>

(***************************************************************************)
(* A failing classification or extraction (FillSpec)                       *)
(***************************************************************************)
\* the answers of a failed classification: the call raised, or the text is
\* not one of the listed names
FailedAnswers == {LLMRaises, "a flight, i think"}

\* the supervisor consults the LLM: the user has just spoken, the run does not
\* end, no proposal is pending and no keyword matches
LLMConsulted ==
    /\ SupervisorHears(FALSE)
    /\ KeywordTable[LastMessage(messages).content] = None

C34_ClassificationStep ==
    \A a \in FailedAnswers :
        (LLMConsulted /\ Apply(route_detected(State, intent_of_answer(a)))) =>
            /\ current_intent' = current_intent
            /\ dialog_context'.awaiting_confirmation = NoConfirmation
            /\ messages' = messages
            /\ node' = decide_next_action(State)

C34_ExtractionStep ==
    (/\ node = "input_parameter"
     /\ LatestUserMessage(messages) \notin {None, ""}
     /\ Apply(fill_slots(State, ExtractionOnFailure))) =>
        /\ extracted_parameters' = extracted_parameters
        /\ StillMissing # <<>> =>
              /\ node' = "generation"
              /\ Len(messages') = Len(messages) + 1
              /\ dialog_context'.last_response_type \in {"clarification", "parameter_failure"}

\* C34: a classification whose LLM call raises or answers with a text that
\* is not a listed name changes no intent and asks for no confirmation, and
\* the run goes on by the state of the session; an extraction that raises or
\* returns no dictionary leaves extracted_parameters as they were and, with
\* a parameter missing, is answered as a call without progress (a
\* clarification or the failure message).
C34_FailuresDegrade == [][C34_ClassificationStep /\ C34_ExtractionStep]_vars

\* C34 witness: "Paris" was said with an intent current, the classification
\* did not change it, the extraction added nothing and a clarification was
\* asked
C34_Witness ==
    /\ node = "__end__"
    /\ current_intent \in DOMAIN INTENTS
    /\ extracted_parameters = EmptyMap
    /\ Len(messages) = 2
    /\ messages[1] = Msg("user", "Paris")
    /\ messages[2].role = "assistant"
    /\ dialog_context.last_response_type = "clarification"
    /\ Awaiting = NoConfirmation

(***************************************************************************)
(* A session without an intent (FillSpec)                                  *)
(***************************************************************************)
\* the supervisor classifies the utterance of a session that has no intent
ClassifiesWithoutIntent ==
    /\ node = "supervisor"
    /\ messages # <<>>
    /\ LastMessage(messages).role = "user"
    /\ ~GoodbyeTable[LastMessage(messages).content]
    /\ Awaiting = NoConfirmation
    /\ current_intent = None

\* the classification result the step shows: the keyword match when there is
\* one, else an answer of the LLM
Classified(intent) ==
    IF KeywordTable[LastMessage(messages).content] # None
    THEN intent = KeywordTable[LastMessage(messages).content]
    ELSE intent \in {intent_of_answer(a) : a \in LLMAnswers}

C35_Step ==
    (ClassifiesWithoutIntent /\ node' # node) =>
        /\ UNCHANGED <<messages, paused_intents, extracted_parameters, selected_tools,
                       tool_results, dialog_context>>
        /\ Classified(current_intent')
        /\ current_intent' # None => node' = "tool_choosing"
        /\ current_intent' = None => node' = "__end__"

\* no tool is selected, run or about to be run while the session has no intent
NothingWithoutIntent ==
    current_intent = None =>
        /\ selected_tools = <<>>
        /\ DOMAIN tool_results = {}
        /\ node \in {"supervisor", "__end__"}

\* C35: in a session without a current intent the supervisor adopts the
\* intent the classification returns and sends the run to tool choosing;
\* when the classification returns none the intent stays unset, the run
\* ends at once, and no tool is selected or executed while no intent is set.
C35_AdoptOrEnd == [][C35_Step /\ (NothingWithoutIntent => NothingWithoutIntent')]_vars

\* C35 witness: the first utterance named the hotel intent, which was
\* adopted, and tool choosing is about to run
C35_Witness ==
    /\ node = "tool_choosing"
    /\ current_intent = "book_hotel"
    /\ selected_tools = <<>>
    /\ messages = <<Msg("user", "book hotel")>>

(***************************************************************************)
(* A reply that begins with "no" (DeclineSpec)                             *)
(***************************************************************************)
\* the reply begins with the word "no"
BeginsWithNo(u) ==
    LET r == Strip(Lower(u))
    IN  /\ Len(r) >= 2
        /\ SubSeq(r, 1, 2) = "no"
        /\ Len(r) = 2 \/ SubSeq(r, 3, 3) \in {" ", ","}

\* the replies that begin with "no" and do not have the word "yes"
DeclineTable ==
    [u \in Utterances |-> BeginsWithNo(u) /\ ~Contains(Lower(u), "yes")]

C36_Step ==
    (/\ SupervisorHears(TRUE)
     /\ DeclineTable[LastMessage(messages).content]
     /\ node' # node) =>
        /\ current_intent' = current_intent
        /\ extracted_parameters' = extracted_parameters

\* C36: a reply to a pending proposal that begins with the word "no" and has
\* no "yes" in it never executes the switch: the current intent and the
\* extracted parameters stay as they are.
C36_NoNeverSwitches == [][C36_Step]_vars

(***************************************************************************)
(* The pending proposal (Spec)                                             *)
(***************************************************************************)
\* a pending proposal is from the current intent to another configured one
ProposalSound ==
    Awaiting # NoConfirmation =>
        /\ Awaiting.type = "intent_switch"
        /\ Awaiting.from = current_intent
        /\ Awaiting.to \in DOMAIN INTENTS
        /\ Awaiting.to # Awaiting.from

C37_Step ==
    /\ ProposalSound'
    /\ (/\ SupervisorHears(TRUE)
        /\ \/ AffirmativeTable[LastMessage(messages).content]
           \/ NegativeTable[LastMessage(messages).content]
        /\ node' # node)
       => /\ dialog_context'.awaiting_confirmation = NoConfirmation
          /\ node' \in {"tool_choosing", "input_parameter"}

\* C37: a pending proposal always goes from the current intent to a
\* different, configured intent, and a reply that confirms or declines it
\* clears it in the very step that sends the run on.
C37_ProposalSoundAndCleared == [][C37_Step]_vars

\* C37 witness: after a switch from the flight to the hotel intent a proposal
\* back to the flight intent is pending
C37_Witness ==
    /\ node = "__end__"
    /\ Awaiting = [type |-> "intent_switch", from |-> "book_hotel", to |-> "book_flight"]
    /\ current_intent = "book_hotel"
    /\ paused_intents # <<>>

(***************************************************************************)
(* No tool runs with a parameter missing (ExecSpec)                        *)
(***************************************************************************)
\* the tools the step has called: those with a new entry that passed the
\* validation of lines 81-89
NewlyInvoked ==
    {t \in DOMAIN tool_results' :
        /\ tool_results'[t].success
        /\ t \notin DOMAIN tool_results \/ ~tool_results[t].success}

C38_Step ==
    (node = "tool_executing" /\ node' # node) =>
        \A t \in NewlyInvoked :
            /\ current_intent \in DOMAIN INTENTS
            /\ \A p \in Range(INTENTS[current_intent].parameters) :
                  Has(extracted_parameters, p)
            /\ \A p \in Range(TOOLS[t].parameters) : Has(extracted_parameters, p)

\* C38: a pass of the executor calls a tool only when every required
\* parameter of the current intent and every parameter the tool declares has
\* a non-empty value in extracted_parameters.
C38_NoCallWithMissingParameter == [][C38_Step]_vars

\* C38 witness: a pass has called the tools of the first batch of the
\* vacation intent with all four parameters stored
C38_Witness ==
    /\ node = "supervisor"
    /\ current_intent = "plan_vacation"
    /\ dialog_context.current_tool_batch = 1
    /\ \A p \in Range(INTENTS["plan_vacation"].parameters) : Has(extracted_parameters, p)
    /\ \E t \in DOMAIN tool_results : tool_results[t].success

(***************************************************************************)
(* The current intent (DeclineSpec)                                        *)
(***************************************************************************)
\* w stands in s as a word: no letter before it and none after it
HasWord(s, w) ==
    \E i \in 1..(Len(s) - Len(w) + 1) :
        /\ SubSeq(s, i, i + Len(w) - 1) = w
        /\ i = 1 \/ ~Contains(LowerChars, SubSeq(s, i - 1, i - 1))
        /\ i + Len(w) - 1 = Len(s)
            \/ ~Contains(LowerChars, SubSeq(s, i + Len(w), i + Len(w)))

\* the replies that say yes: one of the affirmative words is a word of the reply
SaysYesTable ==
    [u \in Utterances |->
        \E w \in {"yes", "y", "switch", "pause"} : HasWord(Strip(Lower(u)), w)]

C39_Step ==
    current_intent # None =>
        /\ current_intent' # None
        /\ current_intent' # current_intent =>
              /\ SupervisorHears(TRUE)
              /\ SaysYesTable[LastMessage(messages).content]
              /\ Awaiting.from = current_intent
              /\ current_intent' = Awaiting.to

\* C39: once set, the current intent is never unset, and it changes only in
\* the step in which the supervisor hears a reply that says yes to a pending
\* proposal, and then to the proposed intent; a classification result alone
\* never changes it.
C39_IntentChangesOnlyOnYes == [][C39_Step]_vars

(***************************************************************************)
(* Keywords before the LLM (Spec)                                          *)
(***************************************************************************)
\* the supervisor classifies an utterance in which a keyword matches
KeywordHeard ==
    /\ node = "supervisor"
    /\ messages # <<>>
    /\ LastMessage(messages).role = "user"
    /\ ~GoodbyeTable[LastMessage(messages).content]
    /\ Awaiting = NoConfirmation
    /\ KeywordTable[LastMessage(messages).content] # None

KeywordIntent == KeywordTable[LastMessage(messages).content]

C40_Step ==
    /\ current_intent' \in DOMAIN INTENTS \cup {None}
    /\ dialog_context'.awaiting_confirmation.to \in DOMAIN INTENTS \cup {None}
    /\ (KeywordHeard /\ node' # node) =>
          IF current_intent = None
          THEN /\ current_intent' = KeywordIntent
               /\ node' = "tool_choosing"
          ELSE IF KeywordIntent # current_intent
          THEN /\ dialog_context'.awaiting_confirmation =
                    [type |-> "intent_switch", from |-> current_intent, to |-> KeywordIntent]
               /\ current_intent' = current_intent
               /\ node' = "__end__"
          ELSE /\ dialog_context'.awaiting_confirmation = NoConfirmation
               /\ current_intent' = current_intent

\* C40: when a keyword of an intent is in the utterance the classification
\* is the keyword match, whatever the LLM would answer: that intent is
\* adopted, or proposed, or is the current one; and the intent adopted or
\* proposed is always one of the configured intents.
C40_KeywordsFirst == [][C40_Step]_vars

\* C40 witness: "book hotel" was said while the flight intent was current
\* and the switch to the hotel intent has just been proposed
C40_Witness ==
    /\ node = "__end__"
    /\ current_intent = "book_flight"
    /\ Awaiting = [type |-> "intent_switch", from |-> "book_flight", to |-> "book_hotel"]
    /\ Len(messages) = 2
    /\ messages[1] = Msg("user", "book hotel")
    /\ messages[2] = Msg("assistant", ConfirmationMessage("book_flight", "book_hotel"))

=============================================================================
